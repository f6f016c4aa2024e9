------------------------ MODULE TransportSystemProofs ------------------------
(***************************************************************************)
(* The theorems about TransportSystem, for any number of streams and       *)
(* sessions, any limits, and any amount of trouble.                        *)
(***************************************************************************)
EXTENDS TransportSystem, IngestStoreProofs

-----------------------------------------------------------------------------
(* The inductive invariant: what the process holds for a session, what the *)
(* SFU holds, and what the row says, fit together.                         *)

EARLY == {"idle", "admitting", "admitted"}

\* A row is inserted by the admission of its publish.
Inserted(s) == (session[s].state = "none") <=> (conn[s].phase \in {"idle", "admitting"})

\* Before the answer of the admission is handled there is nothing else.
Early(s) ==
  conn[s].phase \in EARLY =>
    /\ ~conn[s].joined /\ conn[s].timer = "none" /\ ~conn[s].watched
    /\ room[s] = NoRoom /\ calls[s] = {}

\* Only WebRTC sessions have rooms.
Roomless(s) == conn[s].mode \notin {"whip", "browser"} => room[s].plain = {}

Flowed(s) == session[s].state = "live" \/ conn[s].going # "no" => conn[s].media

\* A session that is held has somebody who will end it.
Attended(s) ==
  conn[s].phase = "held" /\ conn[s].mode # "whip" /\ (conn[s].mode = "browser" => conn[s].joined)
    => conn[s].here

\* What may have been given up for a session: that its record is closed with
\* what held it ("record"), and that RTP sent out has somebody who closes it
\* ("egress").  Both are kept until a call of the session fails.
Cares == SUBSET {"record", "egress"}

\* A WHIP session that is set up has no other router on its way than its own,
\* and connects a transport that is there.
SettingUp(s, kept) ==
  conn[s].phase = "held" /\ conn[s].mode = "whip" /\ ~conn[s].joined =>
    /\ calls[s] \cap {"capabilities", "viewer"} = {}
    /\ "connect" \in calls[s] => room[s].transport # "none"
    /\ room[s].router \/ ~conn[s].watched
    /\ "record" \in kept /\ Open(s) /\ process.pc # "gone" => calls[s] \cap SETUP # {}

\* An end that is done has closed its record.
Finished(s, kept) ==
  conn[s].phase = "done" /\ "record" \in kept /\ process.pc # "gone" => ~Open(s)

Watched(s) == conn[s].mode = "jsmpeg" /\ conn[s].watched => conn[s].phase = "held"
Sent(s, kept) ==
  room[s].plain # {} /\ "egress" \in kept => conn[s].handle \/ "egressAudio" \in calls[s]

Sound(s, kept) ==
  /\ Inserted(s) /\ Early(s) /\ Roomless(s) /\ Flowed(s) /\ Attended(s)
  /\ SettingUp(s, kept) /\ Finished(s, kept) /\ Watched(s) /\ Sent(s, kept)

\* The worker has registered: its beat never finds it starting.
Registered == worker[self].state \notin {"none", "starting"}

IInv == TypeOK /\ Registered /\ \A s \in Session : Sound(s, {})

\* A step that gives nothing up, and one that does for no other session than s.
Harmless == \A t \in Session, kept \in Cares : Sound(t, kept) => Sound(t, kept)'
Harms(s) ==
  /\ faults' > faults
  /\ \A t \in Session \ {s}, kept \in Cares : Sound(t, kept) => Sound(t, kept)'

-----------------------------------------------------------------------------
(* Steps of one session                                                    *)

\* Only what is held for s changes, and it stays well formed.
Local(s) ==
  /\ conn' \in [Session -> Conn] /\ room' \in [Session -> Room]
  /\ calls' \in [Session -> SUBSET Call]
  /\ \A t \in Session \ {s} : conn'[t] = conn[t] /\ room'[t] = room[t] /\ calls'[t] = calls[t]

LEMMA Holds ==
  ASSUME TypeOK
  PROVE  /\ StoreTypeOK /\ session \in [Session -> SessionRow]
         /\ conn \in [Session -> Conn] /\ room \in [Session -> Room]
         /\ calls \in [Session -> SUBSET Call]
         /\ \A s \in Session :
              conn[s] \in Conn /\ room[s] \in Room /\ calls[s] \in SUBSET Call
         /\ process \in Process /\ faults \in Nat /\ incidents \in Nat
BY TransportAssumption DEF TypeOK, TransportTypeOK, SfuTypeOK, StoreTypeOK, TransportAssumption

\* What closeSession does to its own room and to the others.
LEMMA Closing ==
  ASSUME TypeOK, NEW s \in Session, closeSession({s})
  PROVE  /\ room' \in [Session -> Room] /\ calls' \in [Session -> SUBSET Call]
         /\ room'[s] = Emptied(room[s]) /\ calls'[s] = calls[s] \cap Outlasting
         /\ \A t \in Session \ {s} : room'[t] = room[t] /\ calls'[t] = calls[t]
<1>1. \A t \in Session : Emptied(room[t]) \in Room
  BY Holds DEF Emptied, NoRoom, Room
<1> QED
  BY <1>1, Holds DEF closeSession

\* What an end leaves of what the worker held.
LEMMA EndedConn ==
  ASSUME NEW c \in Conn
  PROVE  /\ Ended(c) \in Conn /\ Ended(c).phase = "ending" /\ Ended(c).media = c.media
         /\ Ended(c).going = c.going /\ Ended(c).mode = c.mode
         /\ Ended(c).handle = FALSE
         /\ Ended(c).watched => c.watched /\ c.mode # "jsmpeg"
<1>1. PICK h \in BOOLEAN, w \in BOOLEAN, t \in {"none", "ice"} :
        /\ h = (c.here /\ c.mode = "browser") /\ w = (c.watched /\ c.mode # "jsmpeg")
        /\ t = IF c.timer = "ice" THEN "ice" ELSE "none"
  OBVIOUS
<1>2. Ended(c) = [c EXCEPT !.phase = "ending", !.handle = FALSE, !.here = h,
                            !.timer = t, !.watched = w]
  BY <1>1 DEF Ended, Conn
<1>3. Ended(c) \in Conn
  BY <1>2 DEF Conn
<1>4. /\ Ended(c).phase = "ending" /\ Ended(c).media = c.media
         /\ Ended(c).going = c.going /\ Ended(c).mode = c.mode
         /\ Ended(c).handle = FALSE /\ Ended(c).watched = w
  BY <1>2 DEF Conn
<1> QED
  BY <1>1, <1>3, <1>4

LEMMA LivelyConn ==
  ASSUME NEW c \in Conn
  PROVE  LET d == Lively(c) IN
         /\ d \in Conn /\ d.media /\ d.phase = c.phase /\ d.mode = c.mode
         /\ d.joined = c.joined /\ d.here = c.here /\ d.timer = c.timer
         /\ d.watched = c.watched /\ d.handle = c.handle
<1>1. PICK l \in BOOLEAN, g \in {"no", "info", "transition"} :
        /\ l = (c.live \/ c.phase = "held")
        /\ g = IF ~c.live /\ c.phase = "held" THEN "transition" ELSE c.going
  BY DEF Conn
<1>2. Lively(c) = [c EXCEPT !.media = TRUE, !.live = l, !.going = g]
  BY <1>1 DEF Lively, Conn
<1> QED
  BY <1>2 DEF Conn

\* Every end goes through this: the publish leaves the map, its room closes.
LEMMA EndFits ==
  ASSUME TypeOK, NEW s \in Session, NEW kept, Sound(s, kept), conn[s].phase = "held",
         NEW c \in Conn, c.phase = "held", c.media = conn[s].media, c.mode = conn[s].mode,
         c.going \in {"no", conn[s].going},
         conn' = [conn EXCEPT ![s] = Ended(c)], closeSession({s}), UNCHANGED session
  PROVE  Local(s) /\ Sound(s, kept)'
<1>1. /\ Ended(c) \in Conn /\ Ended(c).phase = "ending" /\ Ended(c).media = c.media
      /\ Ended(c).going = c.going /\ Ended(c).mode = c.mode
      /\ c.mode = "jsmpeg" => ~Ended(c).watched
  BY EndedConn
<1>2. conn'[s] = Ended(c)
  BY Holds
<1>3. room'[s].plain = {}
  BY Closing DEF Emptied, NoRoom
<1>4. Local(s)
  BY <1>1, Closing, Holds DEF Local
<1>5. Sound(s, kept)'
  BY <1>1, <1>2, <1>3
     DEF Sound, Inserted, Early, Roomless, Flowed, Attended, SettingUp, Finished, Watched,
         Sent, EARLY
<1> QED
  BY <1>4, <1>5

\* A step that touches nothing but phases, timers and where the encoder is.
LEMMA ConnFits ==
  ASSUME TypeOK, NEW s \in Session, NEW kept, Sound(s, kept), NEW c \in Conn,
         conn' = [conn EXCEPT ![s] = c], UNCHANGED sfu, UNCHANGED session
  PROVE  /\ Local(s)
         /\ conn'[s] = c /\ room'[s] = room[s] /\ calls'[s] = calls[s]
         /\ session'[s] = session[s]
BY Holds DEF Local, sfu

LEMMA TransportIsUpFits ==
  ASSUME TypeOK, NEW s \in Session, NEW kept, Sound(s, kept), TransportIsUp(s)
  PROVE  Local(s) /\ Sound(s, kept)'
<1>1. conn[s] \in Conn /\ room[s] \in Room /\ calls[s] \in SUBSET Call
  BY Holds
<1>2. PICK r \in Room : /\ room' = [room EXCEPT ![s] = r] /\ r.transport = "new"
                        /\ r.plain = room[s].plain /\ r.router = room[s].router
  <2>1. [room[s] EXCEPT !.transport = "new"] \in Room
    BY <1>1 DEF Room
  <2> QED
    BY <1>1, <2>1 DEF TransportIsUp, Answered, Room
<1>3. PICK k \in SUBSET {"connect"} :
        /\ calls' = [calls EXCEPT ![s] = (@ \ {"transport"}) \cup k]
        /\ conn[s].mode = "whip" => k = {"connect"}
  <2>1. conn[s].mode = "whip" => Whip(s)
    BY DEF TransportIsUp, Webrtc, Whip, Browser
  <2>2. CASE Whip(s)
    BY <2>2 DEF TransportIsUp, Answered
  <2>3. CASE ~Whip(s)
    <3> WITNESS {} \in SUBSET {"connect"}
    <3> QED
      BY <2>1, <2>3 DEF TransportIsUp, Answered
  <2> QED
    BY <2>2, <2>3
<1>4. UNCHANGED <<conn, session, process>> /\ "transport" \in calls[s]
      /\ conn[s].mode \in {"whip", "browser"}
  BY DEF TransportIsUp, Answered, Webrtc, Whip, Browser, elsewhere
<1>5. /\ Local(s) /\ room'[s] = r
      /\ calls'[s] = (calls[s] \ {"transport"}) \cup k
  BY <1>1, <1>2, <1>3, <1>4, Holds DEF Local, Call
<1>6. Sound(s, kept)'
  BY <1>1, <1>2, <1>3, <1>4, <1>5
     DEF Sound, Inserted, Early, Roomless, Flowed, Attended, SettingUp, Finished, Watched,
         Sent, EARLY, SETUP, Open
<1> QED
  BY <1>5, <1>6

LEMMA ConnectedFits ==
  ASSUME TypeOK, NEW s \in Session, NEW kept, Sound(s, kept), Connected(s)
  PROVE  Local(s) /\ Sound(s, kept)'
<1>1. conn[s] \in Conn /\ room[s] \in Room /\ calls[s] \in SUBSET Call
  BY Holds
<1>2. Local(s)
  BY <1>1 DEF Local, SfuTypeOK, TransportTypeOK, TypeOK, Connected, Answered, Room, Call
<1>3. Sound(s, kept)'
  BY <1>1 DEF Sound, Inserted, Early, Roomless, Flowed, Attended, SettingUp, Finished,
         Watched, Sent, SETUP, Open, Connected, Webrtc, Answered, elsewhere, Browser, Room
<1> QED
  BY <1>2, <1>3

LEMMA ConnectedLateFits ==
  ASSUME TypeOK, NEW s \in Session, NEW kept, Sound(s, kept), ConnectedLate(s)
  PROVE  Local(s) /\ Sound(s, kept)'
<1>1. conn[s] \in Conn /\ room[s] \in Room /\ calls[s] \in SUBSET Call
  BY Holds
<1>2. PICK k \in SUBSET {"capabilities"} : /\ "connect" \in calls[s]
        /\ room' = [room EXCEPT ![s] = room[s]]
        /\ calls' = [calls EXCEPT ![s] = (@ \ {"connect"}) \cup k]
  BY DEF ConnectedLate, Answered
<1>3. room[s].transport = "none" /\ UNCHANGED <<conn, session, process>>
  BY DEF ConnectedLate, elsewhere
<1>4. ~(conn[s].phase = "held" /\ conn[s].mode = "whip" /\ ~conn[s].joined)
  BY <1>2, <1>3 DEF Sound, SettingUp
<1>5. /\ Local(s) /\ room'[s] = room[s]
      /\ calls'[s] = (calls[s] \ {"connect"}) \cup k
  BY <1>1, <1>2, <1>3, Holds DEF Local, Call, Creating
<1>6. Sound(s, kept)'
  BY <1>2, <1>3, <1>4, <1>5 DEF Sound, Inserted, Early, Roomless, Flowed, Attended,
     SettingUp, Finished, Watched, Sent, Open
<1> QED
  BY <1>5, <1>6

LEMMA WhipAnswersFits ==
  ASSUME TypeOK, NEW s \in Session, NEW kept, Sound(s, kept), NEW kinds \in SUBSET Kind, WhipAnswers(s, kinds)
  PROVE  Local(s) /\ Sound(s, kept)'
<1>1. conn[s] \in Conn /\ room[s] \in Room /\ calls[s] \in SUBSET Call
  BY Holds
<1>2. Local(s)
  BY <1>1 DEF Local, SfuTypeOK, TransportTypeOK, TypeOK, WhipAnswers, Answered, Conn, Room
<1>3. Sound(s, kept)'
  BY <1>1 DEF Sound, Inserted, Early, Roomless, Flowed, Attended, SettingUp, Finished,
         Watched, Sent, Open, TransportTypeOK, TypeOK, WhipAnswers, Whip, Answered,
         elsewhere
<1> QED
  BY <1>2, <1>3

LEMMA ProducedFits ==
  ASSUME TypeOK, NEW s \in Session, NEW kept, Sound(s, kept), NEW k \in Kind, Produced(s, k)
  PROVE  Local(s) /\ Sound(s, kept)'
<1>1. conn[s] \in Conn /\ room[s] \in Room /\ calls[s] \in SUBSET Call
  BY Holds
<1>2. Local(s)
  BY <1>1 DEF Local, SfuTypeOK, TransportTypeOK, TypeOK, Produced, Answered, Lively, Conn,
         Room
<1>3. Sound(s, kept)'
  BY <1>1 DEF Sound, Inserted, Early, Roomless, Flowed, Attended, SettingUp, Finished,
         Watched, Sent, Open, Produced, Browser, Answered, Lively, elsewhere
<1> QED
  BY <1>2, <1>3

LEMMA AudioOutFits ==
  ASSUME TypeOK, NEW s \in Session, NEW kept, Sound(s, kept), AudioOut(s)
  PROVE  Local(s) /\ Sound(s, kept)'
<1>1. conn[s] \in Conn /\ room[s] \in Room /\ calls[s] \in SUBSET Call
  BY Holds
<1>2. Local(s)
  BY <1>1 DEF Local, SfuTypeOK, TransportTypeOK, TypeOK, AudioOut, Answered, Conn, Room,
         Kind
<1>3. Sound(s, kept)'
  BY <1>1 DEF Sound, Inserted, Early, Roomless, Flowed, Attended, SettingUp, Finished,
         Watched, Sent, SETUP, Open, TransportTypeOK, TypeOK, AudioOut, Webrtc, Answered,
         elsewhere, Whip, Browser
<1> QED
  BY <1>2, <1>3

LEMMA AskCapabilitiesFits ==
  ASSUME TypeOK, NEW s \in Session, NEW kept, Sound(s, kept), AskCapabilities(s)
  PROVE  Local(s) /\ Sound(s, kept)'
<1>1. conn[s] \in Conn /\ room[s] \in Room /\ calls[s] \in SUBSET Call
  BY Holds
<1>2. Local(s)
  BY <1>1 DEF Local, SfuTypeOK, TransportTypeOK, TypeOK, AskCapabilities, Request, Call,
         Creating
<1>3. Sound(s, kept)'
  BY <1>1 DEF Sound, Inserted, Early, Roomless, Flowed, Attended, SettingUp, Finished,
         Watched, Sent, Open, AskCapabilities, Says, Request, elsewhere
<1> QED
  BY <1>2, <1>3

LEMMA AskTransportFits ==
  ASSUME TypeOK, NEW s \in Session, NEW kept, Sound(s, kept), AskTransport(s)
  PROVE  Local(s) /\ Sound(s, kept)'
<1>1. conn[s] \in Conn /\ room[s] \in Room /\ calls[s] \in SUBSET Call
  BY Holds
<1>2. Local(s)
  BY <1>1 DEF Local, SfuTypeOK, TransportTypeOK, TypeOK, AskTransport, Request, Call,
         Creating
<1>3. Sound(s, kept)'
  BY <1>1 DEF Sound, Inserted, Early, Roomless, Flowed, Attended, SettingUp, Finished,
         Watched, Sent, Open, AskTransport, Says, Request, elsewhere
<1> QED
  BY <1>2, <1>3

LEMMA AskConnectFits ==
  ASSUME TypeOK, NEW s \in Session, NEW kept, Sound(s, kept), AskConnect(s)
  PROVE  Local(s) /\ Sound(s, kept)'
<1>1. conn[s] \in Conn /\ room[s] \in Room /\ calls[s] \in SUBSET Call
  BY Holds
<1>2. Local(s)
  BY <1>1 DEF Local, SfuTypeOK, TransportTypeOK, TypeOK, AskConnect, Request, Call
<1>3. Sound(s, kept)'
  BY <1>1 DEF Sound, Inserted, Early, Roomless, Flowed, Attended, SettingUp, Finished,
         Watched, Sent, Open, AskConnect, Says, Request, elsewhere
<1> QED
  BY <1>2, <1>3

LEMMA AskProduceFits ==
  ASSUME TypeOK, NEW s \in Session, NEW kept, Sound(s, kept), AskProduce(s)
  PROVE  Local(s) /\ Sound(s, kept)'
<1>1. conn[s] \in Conn /\ room[s] \in Room /\ calls[s] \in SUBSET Call
  BY Holds
<1>2. Local(s)
  BY <1>1 DEF Local, SfuTypeOK, TransportTypeOK, TypeOK, AskProduce, Request, Call
<1>3. Sound(s, kept)'
  BY <1>1 DEF Sound, Inserted, Early, Roomless, Flowed, Attended, SettingUp, Finished,
         Watched, Sent, Open, AskProduce, Says, Request, elsewhere
<1> QED
  BY <1>2, <1>3

LEMMA StopProduceFits ==
  ASSUME TypeOK, NEW s \in Session, NEW kept, Sound(s, kept), StopProduce(s)
  PROVE  Local(s) /\ Sound(s, kept)'
<1>1. conn[s] \in Conn /\ room[s] \in Room /\ calls[s] \in SUBSET Call
  BY Holds
<1>2. Local(s)
  BY <1>1 DEF Local, SfuTypeOK, TransportTypeOK, TypeOK, StopProduce, closePeer, Removed,
         PeerClosed, Become, Conn, Room, Call
<1>3. Sound(s, kept)'
  BY <1>1 DEF Sound, Inserted, Early, Roomless, Flowed, Attended, SettingUp, Finished,
         Watched, Sent, Open, SfuTypeOK, TypeOK, StopProduce, Says, closePeer, Removed,
         elsewhere, PeerClosed
<1> QED
  BY <1>2, <1>3

LEMMA IceConnectsFits ==
  ASSUME TypeOK, NEW s \in Session, NEW kept, Sound(s, kept), IceConnects(s)
  PROVE  Local(s) /\ Sound(s, kept)'
<1>1. conn[s] \in Conn /\ room[s] \in Room /\ calls[s] \in SUBSET Call
  BY Holds
<1>2. Local(s)
  BY <1>1 DEF Local, SfuTypeOK, TransportTypeOK, TypeOK, IceConnects, Lively, sfu, Conn
<1>3. Sound(s, kept)'
  BY <1>1 DEF Sound, Inserted, Early, Roomless, Flowed, Attended, SettingUp, Finished,
         Watched, Sent, Open, IceConnects, Lively, sfu, elsewhere
<1> QED
  BY <1>2, <1>3

LEMMA IceDisconnectsFits ==
  ASSUME TypeOK, NEW s \in Session, NEW kept, Sound(s, kept), IceDisconnects(s)
  PROVE  Local(s) /\ Sound(s, kept)'
<1>1. conn[s] \in Conn /\ room[s] \in Room /\ calls[s] \in SUBSET Call
  BY Holds
<1>2. Local(s)
  BY <1>1 DEF Local, SfuTypeOK, TransportTypeOK, TypeOK, IceDisconnects, sfu, Conn
<1>3. Sound(s, kept)'
  BY <1>1 DEF Sound, Inserted, Early, Roomless, Flowed, Attended, SettingUp, Finished,
         Watched, Sent, Open, IceDisconnects, sfu, elsewhere
<1> QED
  BY <1>2, <1>3

LEMMA ViewerJoinsFits ==
  ASSUME TypeOK, NEW s \in Session, NEW kept, Sound(s, kept), ViewerJoins(s)
  PROVE  Local(s) /\ Sound(s, kept)'
<1>1. conn[s] \in Conn /\ room[s] \in Room /\ calls[s] \in SUBSET Call
  BY Holds
<1>2. Local(s)
  BY <1>1 DEF Local, SfuTypeOK, TransportTypeOK, TypeOK, ViewerJoins, sfu, Conn
<1>3. Sound(s, kept)'
  BY <1>1 DEF Sound, Inserted, Early, Roomless, Flowed, Attended, SettingUp, Finished,
         Watched, Sent, Open, ViewerJoins, Webrtc, hasRouter, sfu, elsewhere, Whip, Browser,
         NoRoom
<1> QED
  BY <1>2, <1>3

LEMMA ViewerAsksFits ==
  ASSUME TypeOK, NEW s \in Session, NEW kept, Sound(s, kept), ViewerAsks(s)
  PROVE  Local(s) /\ Sound(s, kept)'
<1>1. conn[s] \in Conn /\ room[s] \in Room /\ calls[s] \in SUBSET Call
  BY Holds
<1>2. Local(s)
  BY <1>1 DEF Local, SfuTypeOK, TransportTypeOK, TypeOK, ViewerAsks, Request, Call, Creating
<1>3. Sound(s, kept)'
  BY <1>1 DEF Sound, Inserted, Early, Roomless, Flowed, Attended, SettingUp, Finished,
         Watched, Sent, Open, ViewerAsks, hasRouter, Request, elsewhere
<1> QED
  BY <1>2, <1>3

LEMMA ViewerLeavesFits ==
  ASSUME TypeOK, NEW s \in Session, NEW kept, Sound(s, kept), ViewerLeaves(s)
  PROVE  Local(s) /\ Sound(s, kept)'
<1>1. conn[s] \in Conn /\ room[s] \in Room /\ calls[s] \in SUBSET Call
  BY Holds
<1>2. Local(s)
  BY <1>1 DEF Local, SfuTypeOK, TransportTypeOK, TypeOK, ViewerLeaves, sfu, Conn
<1>3. Sound(s, kept)'
  BY <1>1 DEF Sound, Inserted, Early, Roomless, Flowed, Attended, SettingUp, Finished,
         Watched, Sent, Open, ViewerLeaves, sfu, elsewhere
<1> QED
  BY <1>2, <1>3

LEMMA OpenEgressFits ==
  ASSUME TypeOK, NEW s \in Session, NEW kept, Sound(s, kept), OpenEgress(s)
  PROVE  Local(s) /\ Sound(s, kept)'
<1>1. conn[s] \in Conn /\ room[s] \in Room /\ calls[s] \in SUBSET Call
  BY Holds
<1>2. Local(s)
  BY <1>1 DEF Local, SfuTypeOK, TransportTypeOK, TypeOK, OpenEgress, Request, Call
<1>3. Sound(s, kept)'
  BY <1>1 DEF Sound, Inserted, Early, Roomless, Flowed, Attended, SettingUp, Finished,
         Watched, Sent, EARLY, Open, OpenEgress, Request, elsewhere
<1> QED
  BY <1>2, <1>3

LEMMA CloseEgressFits ==
  ASSUME TypeOK, NEW s \in Session, NEW kept, Sound(s, kept), CloseEgress(s)
  PROVE  Local(s) /\ Sound(s, kept)'
<1>1. conn[s] \in Conn /\ room[s] \in Room /\ calls[s] \in SUBSET Call
  BY Holds
<1>2. Local(s)
  BY <1>1 DEF Local, SfuTypeOK, TransportTypeOK, TypeOK, CloseEgress, closePlainConsumer,
         Conn, Room
<1>3. Sound(s, kept)'
  BY <1>1 DEF Sound, Inserted, Early, Roomless, Flowed, Attended, SettingUp, Finished,
         Watched, Sent, EARLY, Open, SfuTypeOK, TypeOK, CloseEgress, closePlainConsumer,
         elsewhere, Room
<1> QED
  BY <1>2, <1>3

LEMMA AcceptFits ==
  ASSUME TypeOK, NEW s \in Session, NEW kept, Sound(s, kept), Accept(s)
  PROVE  Local(s) /\ Sound(s, kept)'
<1>1. conn[s] \in Conn /\ room[s] \in Room /\ calls[s] \in SUBSET Call
  BY Holds
<1>2. Local(s)
  BY <1>1 DEF Local, SfuTypeOK, TransportTypeOK, TypeOK, Accept, Flowing, untouched, Conn
<1>3. Sound(s, kept)'
  BY <1>1 DEF Sound, Inserted, Early, Roomless, Flowed, Attended, SettingUp, Finished,
         Watched, Sent, EARLY, Accept, Flowing, untouched
<1> QED
  BY <1>2, <1>3

LEMMA BytesFits ==
  ASSUME TypeOK, NEW s \in Session, NEW kept, Sound(s, kept), Bytes(s)
  PROVE  Local(s) /\ Sound(s, kept)'
<1>1. conn[s] \in Conn /\ room[s] \in Room /\ calls[s] \in SUBSET Call
  BY Holds
<1>2. Local(s)
  BY <1>1 DEF Local, SfuTypeOK, TransportTypeOK, TypeOK, Bytes, Flowing, untouched, Conn
<1>3. Sound(s, kept)'
  BY <1>1 DEF Sound, Inserted, Early, Roomless, Flowed, Attended, SettingUp, Finished,
         Watched, Sent, Open, Bytes, Flowing, untouched
<1> QED
  BY <1>2, <1>3

LEMMA InfoSetFits ==
  ASSUME TypeOK, NEW s \in Session, NEW kept, Sound(s, kept), InfoSet(s)
  PROVE  Local(s) /\ Sound(s, kept)'
<1>1. conn[s] \in Conn /\ room[s] \in Room /\ calls[s] \in SUBSET Call
  BY Holds
<1>2. Local(s)
  BY <1>1 DEF Local, SfuTypeOK, TransportTypeOK, TypeOK, InfoSet, untouched, Conn
<1>3. Sound(s, kept)'
  BY <1>1 DEF Sound, Inserted, Early, Roomless, Flowed, Attended, SettingUp, Finished,
         Watched, Sent, Open, InfoSet, untouched
<1> QED
  BY <1>2, <1>3

LEMMA WatchFits ==
  ASSUME TypeOK, NEW s \in Session, NEW kept, Sound(s, kept), Watch(s)
  PROVE  Local(s) /\ Sound(s, kept)'
<1>1. conn[s] \in Conn /\ room[s] \in Room /\ calls[s] \in SUBSET Call
  BY Holds
<1>2. Local(s)
  BY <1>1 DEF Local, SfuTypeOK, TransportTypeOK, TypeOK, Watch, untouched, Conn
<1>3. Sound(s, kept)'
  BY <1>1 DEF Sound, Inserted, Early, Roomless, Flowed, Attended, SettingUp, Finished,
         Watched, Sent, EARLY, Watch, Jsmpeg, untouched
<1> QED
  BY <1>2, <1>3

LEMMA UnwatchFits ==
  ASSUME TypeOK, NEW s \in Session, NEW kept, Sound(s, kept), Unwatch(s)
  PROVE  Local(s) /\ Sound(s, kept)'
<1>1. conn[s] \in Conn /\ room[s] \in Room /\ calls[s] \in SUBSET Call
  BY Holds
<1>2. Local(s)
  BY <1>1 DEF Local, SfuTypeOK, TransportTypeOK, TypeOK, Unwatch, untouched, Conn
<1>3. Sound(s, kept)'
  BY <1>1 DEF Sound, Inserted, Early, Roomless, Flowed, Attended, SettingUp, Finished,
         Watched, Sent, Open, Unwatch, untouched
<1> QED
  BY <1>2, <1>3

LEMMA PostClosesFits ==
  ASSUME TypeOK, NEW s \in Session, NEW kept, Sound(s, kept), PostCloses(s)
  PROVE  Local(s) /\ Sound(s, kept)'
<1>1. PICK c \in Conn : c = conn[s]
  BY Holds
<1>2. c.mode = "jsmpeg" /\ UNCHANGED <<session, sfu, process>>
  BY <1>1 DEF PostCloses, Jsmpeg, untouched, sfu
<1>3. PICK d \in Conn :
        /\ conn' = [conn EXCEPT ![s] = d]
        /\ d.mode = c.mode /\ d.media = c.media /\ d.going = c.going
        /\ \/ c.phase = "held" /\ d.phase = "ending" /\ ~d.watched
           \/ /\ c.phase # "held" /\ d.phase = c.phase /\ d.joined = c.joined
              /\ d.timer = c.timer /\ d.handle = c.handle /\ d.watched = c.watched
  <2>1. CASE c.phase = "held"
    BY <1>1, <1>2, <2>1, EndedConn DEF PostCloses
  <2>2. CASE c.phase # "held"
    <3>1. [c EXCEPT !.here = FALSE] \in Conn
      BY DEF Conn
    <3>2. conn' = [conn EXCEPT ![s] = [c EXCEPT !.here = FALSE]]
      BY <1>1, <2>2, Holds DEF PostCloses
    <3>3. PICK d \in Conn : d = [c EXCEPT !.here = FALSE]
      BY <3>1
    <3>4. /\ d.mode = c.mode /\ d.media = c.media /\ d.going = c.going /\ d.phase = c.phase
          /\ d.joined = c.joined /\ d.timer = c.timer /\ d.handle = c.handle
          /\ d.watched = c.watched
      BY <3>3 DEF Conn
    <3> QED
      BY <2>2, <3>2, <3>3, <3>4
  <2> QED
    BY <2>1, <2>2
<1>5. /\ Local(s) /\ conn'[s] = d /\ room'[s] = room[s] /\ calls'[s] = calls[s]
      /\ session'[s] = session[s]
  BY <1>2, <1>3, ConnFits
<1>6. Sound(s, kept)'
  BY <1>1, <1>2, <1>3, <1>5
     DEF Sound, Inserted, Early, Roomless, Flowed, Attended, SettingUp, Finished, Watched,
         Sent, EARLY, Open
<1> QED
  BY <1>5, <1>6

LEMMA AdmittedFits ==
  ASSUME TypeOK, NEW s \in Session, NEW kept, Sound(s, kept), Admitted(s)
  PROVE  Local(s) /\ Sound(s, kept)'
<1>1. PICK c \in Conn, j \in BOOLEAN : c = conn[s] /\ j = (Browser(s) /\ conn[s].here)
  BY Holds DEF Browser
<1>2. PICK d \in Conn : /\ d = [c EXCEPT !.phase = "held", !.joined = j]
                        /\ conn' = [conn EXCEPT ![s] = d]
  <2>1. [c EXCEPT !.phase = "held", !.joined = j] \in Conn
    BY DEF Conn
  <2>2. conn' = [conn EXCEPT ![s] = [c EXCEPT !.phase = "held", !.joined = j]]
    BY <1>1, Holds DEF Admitted
  <2> QED
    BY <2>1, <2>2
<1>3. /\ d.phase = "held" /\ d.joined = j /\ d.mode = c.mode /\ d.here = c.here
      /\ d.media = c.media /\ d.going = c.going /\ d.watched = c.watched
  BY <1>2 DEF Conn
<1>4. /\ c.phase = "admitted" /\ c.mode \in {"whip", "browser"}
      /\ UNCHANGED <<session, process>> /\ UNCHANGED room
      /\ calls' = IF c.mode = "whip" THEN [calls EXCEPT ![s] = @ \cup {"router"}] ELSE calls
  BY <1>1, Holds DEF Admitted, Webrtc, Whip, Browser, elsewhere, Request, sfu
<1>5. Local(s) /\ conn'[s] = d
  BY <1>2, <1>4, Holds DEF Local, Call, Creating
<1>6. Sound(s, kept)'
  <2>1. ~c.watched /\ room[s] = NoRoom /\ calls[s] = {}
    BY <1>1, <1>4 DEF Sound, Early, EARLY
  <2>2. c.mode = "whip" => calls'[s] = {"router"}
    BY <1>4, <2>1, Holds
  <2>3. c.mode = "browser" => (j => c.here)
    BY <1>1
  <2> QED
    BY <1>1, <1>3, <1>4, <1>5, <2>1, <2>2, <2>3
       DEF Sound, Inserted, Early, Roomless, Flowed, Attended, SettingUp, Finished, Watched,
           Sent, EARLY, SETUP, NoRoom
<1> QED
  BY <1>5, <1>6

LEMMA RouterIsUpFits ==
  ASSUME TypeOK, NEW s \in Session, NEW kept, Sound(s, kept), RouterIsUp(s)
  PROVE  Local(s) /\ Sound(s, kept)'
<1>1. PICK c \in Creating : RouterCreated(s, c)
  BY DEF RouterIsUp
<1>2. PICK r \in Room : /\ room' = [room EXCEPT ![s] = r]
                        /\ r.router /\ r.plain = {}
  <2>1. [NoRoom EXCEPT !.router = TRUE, !.spare = room[s].spare \/ hasRouter(s)] \in Room
    BY Holds DEF NoRoom, Room, hasRouter
  <2> QED
    BY <1>1, <2>1 DEF RouterCreated, NoRoom
<1>3. PICK k \in SUBSET Call : /\ calls' = [calls EXCEPT ![s] = k]
                               /\ k \subseteq calls[s] \cup {"lost", "transport"}
                               /\ c = "router" => "transport" \in k
                               /\ "connect" \notin k
  <2> DEFINE K == ((calls[s] \cap Creating) \ {c})
                     \cup Become(calls[s], {"produce", "late", "lost"}, "lost")
                     \cup (IF c = "router" THEN {"transport"} ELSE {})
  <2>1. calls' = [calls EXCEPT ![s] = K]
    BY <1>1, Holds DEF RouterCreated
  <2>2. /\ K \in SUBSET Call /\ K \subseteq calls[s] \cup {"lost", "transport"}
        /\ "connect" \notin K
    BY Holds DEF Become, Call, Creating
  <2> QED
    BY <2>1, <2>2
<1>4. c \in calls[s] /\ UNCHANGED <<session, conn, process>>
  BY <1>1 DEF RouterIsUp, RouterCreated, elsewhere
<1>5. Local(s) /\ room'[s] = r /\ calls'[s] = k
  BY <1>2, <1>3, <1>4, Holds DEF Local
<1>6. Sound(s, kept)'
  BY <1>1, <1>2, <1>3, <1>4, <1>5
     DEF Sound, Inserted, Early, Roomless, Flowed, Attended, SettingUp, Finished, Watched,
         Sent, EARLY, SETUP, Creating, Open
<1> QED
  BY <1>5, <1>6

LEMMA WhipRefusedFits ==
  ASSUME TypeOK, NEW s \in Session, NEW kept, Sound(s, kept), WhipRefused(s)
  PROVE  Local(s) /\ Sound(s, kept)'
<1>1. CASE conn[s].phase = "held"
  BY <1>1, EndFits, Holds DEF WhipRefused, elsewhere
<1>2. CASE conn[s].phase # "held"
  <2>1. /\ UNCHANGED <<conn, session, process>>
        /\ room' = [room EXCEPT ![s] = room[s]]
        /\ calls' = [calls EXCEPT ![s] = @ \ {"produce"}] /\ "produce" \in calls[s]
    BY <1>2 DEF WhipRefused, Answered, elsewhere
  <2>2. Local(s) /\ room'[s] = room[s] /\ calls'[s] = calls[s] \ {"produce"}
    BY <2>1, Holds DEF Local
  <2>3. Sound(s, kept)'
    BY <1>2, <2>1, <2>2 DEF Sound, Inserted, Early, Roomless, Flowed, Attended, SettingUp,
       Finished, Watched, Sent, EARLY, Open
  <2> QED
    BY <2>2, <2>3
<1> QED
  BY <1>1, <1>2

LEMMA ProducedLateFits ==
  ASSUME TypeOK, NEW s \in Session, NEW kept, Sound(s, kept), NEW k \in Kind, ProducedLate(s, k)
  PROVE  Local(s) /\ Sound(s, kept)'
<1>1. PICK d \in Conn : /\ conn' = [conn EXCEPT ![s] = d]
                        /\ d = conn[s] \/ d = Lively(conn[s])
  BY LivelyConn, Holds DEF ProducedLate
<1>2. PICK r \in Room : /\ room' = [room EXCEPT ![s] = r]
                        /\ r.plain = room[s].plain /\ r.router = room[s].router
  <2>1. /\ room[s] \in Room
        /\ [room[s] EXCEPT !.stray = @ \cup {k}] \in Room
    BY Holds DEF Room
  <2> QED
    BY <2>1 DEF ProducedLate, Answered, Room
<1>3. PICK c \in {"late", "lost"} : c \in calls[s] /\ calls' = [calls EXCEPT ![s] = @ \ {c}]
  BY DEF ProducedLate, Answered
<1>4. conn[s].mode = "browser" /\ UNCHANGED <<session, process>>
  BY DEF ProducedLate, Browser, elsewhere
<1>5. /\ d.phase = conn[s].phase /\ d.mode = conn[s].mode /\ d.joined = conn[s].joined
      /\ d.here = conn[s].here /\ d.timer = conn[s].timer /\ d.watched = conn[s].watched
      /\ d.handle = conn[s].handle
      /\ conn[s].media => d.media
      /\ (d.going = conn[s].going) \/ d.media
  BY <1>1, LivelyConn, Holds
<1>6. Local(s) /\ conn'[s] = d /\ room'[s] = r /\ calls'[s] = calls[s] \ {c}
  BY <1>1, <1>2, <1>3, Holds DEF Local
<1>7. Sound(s, kept)'
  BY <1>2, <1>3, <1>4, <1>5, <1>6
     DEF Sound, Inserted, Early, Roomless, Flowed, Attended, SettingUp, Finished, Watched,
         Sent, EARLY, Open
<1> QED
  BY <1>6, <1>7

\* The timers: without an end, only the timer is cleared.
LEMMA ProducerGraceFits ==
  ASSUME TypeOK, NEW s \in Session, NEW kept, Sound(s, kept), ProducerGrace(s)
  PROVE  Local(s) /\ Sound(s, kept)'
<1>1. PICK c \in Conn : c = [conn[s] EXCEPT !.timer = "none"]
  BY Holds DEF Conn
<1>2. /\ c.phase = conn[s].phase /\ c.mode = conn[s].mode /\ c.media = conn[s].media
      /\ c.going = conn[s].going /\ c.joined = conn[s].joined /\ c.here = conn[s].here
      /\ c.watched = conn[s].watched /\ c.handle = conn[s].handle /\ c.timer = "none"
  BY <1>1, Holds DEF Conn
<1>3. UNCHANGED <<session, process>>
  BY DEF ProducerGrace, elsewhere
<1>4. CASE c.phase = "held" /\ conn' = [conn EXCEPT ![s] = Ended(c)] /\ closeSession({s})
  BY <1>2, <1>3, <1>4, EndFits
<1>5. CASE conn' = [conn EXCEPT ![s] = c] /\ UNCHANGED sfu
  <2>1. /\ Local(s) /\ conn'[s] = c /\ room'[s] = room[s] /\ calls'[s] = calls[s]
        /\ session'[s] = session[s]
    BY <1>3, <1>5, ConnFits
  <2>2. Sound(s, kept)'
    BY <1>2, <1>3, <2>1
       DEF Sound, Inserted, Early, Roomless, Flowed, Attended, SettingUp, Finished, Watched,
           Sent, EARLY, Open
  <2> QED
    BY <2>1, <2>2
<1> QED
  BY <1>1, <1>4, <1>5 DEF ProducerGrace

LEMMA IceGraceFits ==
  ASSUME TypeOK, NEW s \in Session, NEW kept, Sound(s, kept), IceGrace(s)
  PROVE  Local(s) /\ Sound(s, kept)'
<1>1. PICK c \in Conn : c = [conn[s] EXCEPT !.timer = "none"]
  BY Holds DEF Conn
<1>2. /\ c.phase = conn[s].phase /\ c.mode = conn[s].mode /\ c.media = conn[s].media
      /\ c.going = conn[s].going /\ c.joined = conn[s].joined /\ c.here = conn[s].here
      /\ c.watched = conn[s].watched /\ c.handle = conn[s].handle /\ c.timer = "none"
  BY <1>1, Holds DEF Conn
<1>3. /\ UNCHANGED <<session, process>>
      /\ conn[s].mode = "whip" /\ conn[s].timer = "ice"
  BY DEF IceGrace, elsewhere, Whip
<1>4. CASE c.phase = "held" /\ conn' = [conn EXCEPT ![s] = Ended(c)] /\ closeSession({s})
  BY <1>2, <1>3, <1>4, EndFits
<1>5. CASE conn' = [conn EXCEPT ![s] = c] /\ UNCHANGED sfu
  <2>1. /\ Local(s) /\ conn'[s] = c /\ room'[s] = room[s] /\ calls'[s] = calls[s]
        /\ session'[s] = session[s]
    BY <1>3, <1>5, ConnFits
  <2>2. Sound(s, kept)'
    BY <1>2, <1>3, <2>1
       DEF Sound, Inserted, Early, Roomless, Flowed, Attended, SettingUp, Finished, Watched,
           Sent, EARLY, Open
  <2> QED
    BY <2>1, <2>2
<1>6. CASE conn' = [conn EXCEPT ![s] = [c EXCEPT !.phase = "ending"]] /\ UNCHANGED sfu
  <2>1. PICK d \in Conn : d = [c EXCEPT !.phase = "ending"]
    BY DEF Conn
  <2>2. /\ d.phase = "ending" /\ d.mode = c.mode /\ d.media = c.media /\ d.going = c.going
        /\ d.handle = c.handle
    BY <2>1 DEF Conn
  <2>3. /\ Local(s) /\ conn'[s] = d /\ room'[s] = room[s] /\ calls'[s] = calls[s]
        /\ session'[s] = session[s]
    BY <1>3, <1>6, <2>1, ConnFits
  <2>4. Sound(s, kept)'
    BY <1>2, <1>3, <2>2, <2>3
       DEF Sound, Inserted, Early, Roomless, Flowed, Attended, SettingUp, Finished, Watched,
           Sent, EARLY, Open
  <2> QED
    BY <2>3, <2>4
<1> QED
  BY <1>1, <1>4, <1>5, <1>6 DEF IceGrace

LEMMA WhipEndsFits ==
  ASSUME TypeOK, NEW s \in Session, NEW kept, Sound(s, kept), WhipEnds(s)
  PROVE  Local(s) /\ Sound(s, kept)'
<1>1. /\ conn[s].mode = "whip" /\ conn[s].joined /\ EndSession(s)
      /\ UNCHANGED <<session, process>>
  BY DEF WhipEnds, Whip, elsewhere
<1>2. CASE conn[s].phase = "held"
  BY <1>1, <1>2, EndFits, Holds DEF EndSession
<1>3. CASE conn[s].phase # "held"
  <2>1. PICK p \in {"idle", "admitting", "admitted", "ending", "done", "left"} :
          p = IF conn[s].phase = "done" THEN "ending" ELSE conn[s].phase
    BY <1>3, Holds DEF Conn
  <2>2. PICK d \in Conn : d = [conn[s] EXCEPT !.phase = p]
    BY Holds DEF Conn
  <2>3. conn' = [conn EXCEPT ![s] = d] /\ UNCHANGED sfu
    BY <1>1, <1>3, <2>1, <2>2, Holds DEF EndSession
  <2>4. /\ d.phase = p /\ d.mode = "whip" /\ d.media = conn[s].media /\ d.joined
        /\ d.going = conn[s].going /\ d.handle = conn[s].handle
    BY <1>1, <2>2, Holds DEF Conn
  <2>5. /\ Local(s) /\ conn'[s] = d /\ room'[s] = room[s] /\ calls'[s] = calls[s]
        /\ session'[s] = session[s]
    BY <1>1, <2>3, ConnFits
  <2>6. Sound(s, kept)'
    BY <1>1, <1>3, <2>1, <2>4, <2>5
       DEF Sound, Inserted, Early, Roomless, Flowed, Attended, SettingUp, Finished, Watched,
           Sent, EARLY, Open
  <2> QED
    BY <2>5, <2>6
<1> QED
  BY <1>2, <1>3

LEMMA SocketClosesFits ==
  ASSUME TypeOK, NEW s \in Session, NEW kept, Sound(s, kept), SocketCloses(s)
  PROVE  Local(s) /\ Sound(s, kept)'
<1>1. PICK c \in Conn : c = [conn[s] EXCEPT !.here = FALSE]
  BY Holds DEF Conn
<1>2. /\ c.phase = conn[s].phase /\ c.mode = conn[s].mode /\ c.media = conn[s].media
      /\ c.going = conn[s].going /\ c.joined = conn[s].joined /\ c.timer = conn[s].timer
      /\ c.watched = conn[s].watched /\ c.handle = conn[s].handle
  BY <1>1, Holds DEF Conn
<1>3. UNCHANGED <<session, process>> /\ conn[s].mode = "browser"
  BY DEF SocketCloses, Browser, elsewhere
<1>4. CASE ~c.joined /\ conn' = [conn EXCEPT ![s] = c] /\ UNCHANGED sfu
  <2>1. /\ Local(s) /\ conn'[s] = c /\ room'[s] = room[s] /\ calls'[s] = calls[s]
        /\ session'[s] = session[s]
    BY <1>3, <1>4, ConnFits
  <2>2. Sound(s, kept)'
    BY <1>2, <1>3, <1>4, <2>1
       DEF Sound, Inserted, Early, Roomless, Flowed, Attended, SettingUp, Finished, Watched,
           Sent, EARLY, Open
  <2> QED
    BY <2>1, <2>2
<1>5. CASE c.phase = "held" /\ conn' = [conn EXCEPT ![s] = Ended(c)] /\ closeSession({s})
  BY <1>2, <1>3, <1>5, EndFits
<1>6. CASE /\ c.joined /\ c.phase # "held"
           /\ conn' = [conn EXCEPT ![s] = [c EXCEPT !.phase = IF @ = "done" THEN "ending" ELSE @]]
           /\ closePeer(s)
  <2>1. PICK p \in {"idle", "admitting", "admitted", "ending", "done", "left"} :
          p = IF c.phase = "done" THEN "ending" ELSE c.phase
    BY <1>6 DEF Conn
  <2>2. PICK d \in Conn : d = [c EXCEPT !.phase = p]
    BY DEF Conn
  <2>3. conn' = [conn EXCEPT ![s] = d]
    BY <1>6, <2>1, <2>2
  <2>4. /\ d.phase = p /\ d.mode = "browser" /\ d.media = c.media /\ d.joined
        /\ d.going = c.going
    BY <1>2, <1>3, <1>6, <2>2 DEF Conn
  <2>5. PICK r \in Room : room' = [room EXCEPT ![s] = r] /\ r.plain = {}
    <3>1. PeerClosed(room[s]) \in Room /\ PeerClosed(room[s]).plain = {}
      BY Holds DEF PeerClosed, Room
    <3> QED
      BY <1>6, <3>1 DEF closePeer
  <2>6. PICK k \in SUBSET Call : calls' = [calls EXCEPT ![s] = k]
    <3> DEFINE K == (calls[s] \ {"connect", "produce", "egressVideo", "egressAudio"})
                       \cup Become(calls[s], {"produce"}, "late")
    <3>1. K \in SUBSET Call /\ calls' = [calls EXCEPT ![s] = K]
      BY <1>6, Holds DEF closePeer, Become, Call
    <3> QED
      BY <3>1
  <2>7. Local(s) /\ conn'[s] = d /\ room'[s] = r
    BY <2>3, <2>5, <2>6, Holds DEF Local
  <2>8. Sound(s, kept)'
    BY <1>2, <1>3, <1>6, <2>1, <2>4, <2>5, <2>7
       DEF Sound, Inserted, Early, Roomless, Flowed, Attended, SettingUp, Finished, Watched,
           Sent, EARLY, Open
  <2> QED
    BY <2>7, <2>8
<1> QED
  BY <1>1, <1>4, <1>5, <1>6 DEF SocketCloses

LEMMA RequestFailsFits ==
  ASSUME TypeOK, NEW s \in Session, Sound(s, {}), RequestFails(s)
  PROVE  Local(s) /\ Sound(s, {})'
<1>1. UNCHANGED <<session, process>>
  BY DEF RequestFails, store
<1>2. PICK c \in calls[s] :
        \/ conn[s].phase = "held" /\ conn' = [conn EXCEPT ![s] = Ended(@)] /\ closeSession({s})
        \/ calls' = [calls EXCEPT ![s] = @ \ {c}] /\ UNCHANGED <<room, conn>>
  BY DEF RequestFails
<1>3. CASE conn[s].phase = "held" /\ conn' = [conn EXCEPT ![s] = Ended(@)] /\ closeSession({s})
  BY <1>1, <1>3, EndFits, Holds
<1>4. CASE calls' = [calls EXCEPT ![s] = @ \ {c}] /\ UNCHANGED <<room, conn>>
  <2>1. Local(s) /\ calls'[s] = calls[s] \ {c}
    BY <1>4, Holds DEF Local
  <2>2. Sound(s, {})'
    BY <1>1, <1>2, <1>4, <2>1
       DEF Sound, Inserted, Early, Roomless, Flowed, Attended, SettingUp, Finished, Watched,
           Sent, EARLY, Open
  <2> QED
    BY <2>1, <2>2
<1> QED
  BY <1>2, <1>3, <1>4

LEMMA VideoOutFits ==
  ASSUME TypeOK, NEW s \in Session, NEW kept, Sound(s, kept), NEW audio \in BOOLEAN, VideoOut(s, audio)
  PROVE  Local(s) /\ Sound(s, kept)'
<1>1. PICK h \in BOOLEAN : h = ~audio
  OBVIOUS
<1>2. PICK d \in Conn : d = [conn[s] EXCEPT !.handle = h] /\ conn' = [conn EXCEPT ![s] = d]
  <2>1. [conn[s] EXCEPT !.handle = h] \in Conn
    BY Holds DEF Conn
  <2> QED
    BY <1>1, <2>1, Holds DEF VideoOut
<1>3. PICK r \in Room : /\ room' = [room EXCEPT ![s] = r]
                        /\ r.router = room[s].router /\ r.transport = room[s].transport
  <2>1. [room[s] EXCEPT !.plain = {"video"}] \in Room
    BY Holds DEF Room, Kind
  <2> QED
    BY <2>1, Holds DEF VideoOut, Answered, Room
<1>4. PICK k \in SUBSET Call :
        /\ calls' = [calls EXCEPT ![s] = k]
        /\ k = (calls[s] \ {"egressVideo"}) \cup (IF audio THEN {"egressAudio"} ELSE {})
  <2>1. (calls[s] \ {"egressVideo"}) \cup (IF audio THEN {"egressAudio"} ELSE {}) \in SUBSET Call
    BY Holds DEF Call
  <2> QED
    BY <2>1 DEF VideoOut, Answered
<1>5. /\ "egressVideo" \in calls[s] /\ conn[s].mode \in {"whip", "browser"}
      /\ UNCHANGED <<session, process>>
  BY DEF VideoOut, Answered, Webrtc, Whip, Browser, elsewhere
<1>6. /\ d.phase = conn[s].phase /\ d.mode = conn[s].mode /\ d.media = conn[s].media
      /\ d.going = conn[s].going /\ d.joined = conn[s].joined /\ d.here = conn[s].here
      /\ d.timer = conn[s].timer /\ d.watched = conn[s].watched /\ d.handle = h
  BY <1>2, Holds DEF Conn
<1>7. Local(s) /\ conn'[s] = d /\ room'[s] = r /\ calls'[s] = k
  BY <1>2, <1>3, <1>4, Holds DEF Local
<1>8. Sound(s, kept)'
  BY <1>1, <1>3, <1>4, <1>5, <1>6, <1>7
     DEF Sound, Inserted, Early, Roomless, Flowed, Attended, SettingUp, Finished, Watched,
         Sent, EARLY, SETUP, Open
<1> QED
  BY <1>7, <1>8

-----------------------------------------------------------------------------
(* Steps of the system                                                     *)

\* The row of t neither appears nor opens, and does not go live.
Stayed(t) == Kept(t) /\ (session'[t].state = "live" => session[t].state = "live")

\* A process that is gone does not come back.
Calm == process'.pc # "gone" => process.pc # "gone"

LEMMA Self == self \in Worker
BY StoreAssumption DEF StoreAssumption, self, Worker

LEMMA StoreStays ==
  ASSUME StoreTypeOK,
         \/ UNCHANGED session \/ heartbeat(self)
         \/ \E s \in Session : finish(s) \/ transition(s, "failed") \/ requestEnd(s)
  PROVE  \A t \in Session : Stayed(t)
<1> SUFFICES ASSUME NEW t \in Session PROVE Stayed(t)
  OBVIOUS
<1>0. self \in Worker /\ session[t] \in SessionRow
  BY Self DEF StoreTypeOK
<1>1. CASE UNCHANGED session
  BY <1>1, UnchangedKeeps DEF Stayed
<1>2. CASE heartbeat(self)
  <2>1. session'[t].state = session[t].state
    BY <1>0, <1>2 DEF heartbeat, SessionRow
  <2> QED
    BY <1>0, <1>2, <2>1, HeartbeatKeeps DEF Stayed
<1>3. ASSUME NEW s \in Session, finish(s)
      PROVE  Stayed(t)
  <2>1. session'[t].state \in {session[t].state, "ending", "ended"}
    BY <1>0, <1>3, MoveTo DEF finish, StoreTypeOK, STATES
  <2> QED
    BY <1>3, <2>1, FinishKeeps DEF Stayed
<1>4. ASSUME NEW s \in Session, transition(s, "failed")
      PROVE  Stayed(t)
  <2>1. session'[t].state \in {session[t].state, "failed"}
    BY <1>0, <1>4, MoveTo DEF transition, StoreTypeOK, STATES
  <2> QED
    BY <1>4, <2>1, TransitionKeeps DEF Stayed, STATES
<1>5. ASSUME NEW s \in Session, requestEnd(s)
      PROVE  Stayed(t)
  <2>1. session'[t].state = session[t].state
    BY <1>0, <1>5 DEF requestEnd, StoreTypeOK, SessionRow
  <2> QED
    BY <1>5, <2>1, RequestKeeps DEF Stayed
<1> QED
  BY <1>1, <1>2, <1>3, <1>4, <1>5

\* A session nothing is done to stays as sound as it was.
LEMMA OthersFit ==
  ASSUME TypeOK, NEW t \in Session, NEW kept, Sound(t, kept), Stayed(t), Calm,
         conn'[t] = conn[t], room'[t] = room[t], calls'[t] = calls[t]
  PROVE  Sound(t, kept)'
BY DEF Sound, Inserted, Early, Roomless, Flowed, Attended, SettingUp, Finished, Watched, Sent,
       Stayed, Kept, Calm

LEMMA Least == {} \in Cares
BY DEF Cares

\* Nothing is given up: the invariant follows from the types.
LEMMA HarmlessKeeps ==
  ASSUME IInv, TypeOK', Registered', Harmless
  PROVE  IInv'
BY Least DEF IInv, Harmless

\* A step of one session that writes no row.
LEMMA LocalTypes ==
  ASSUME IInv, NEW s \in Session, Local(s),
         UNCHANGED <<worker, session, told, kind, process, incidents>>,
         UNCHANGED faults \/ Fault, sweep' \in Sweep
  PROVE  /\ TypeOK' /\ Registered'
         /\ \A t \in Session \ {s}, kept \in Cares : Sound(t, kept) => Sound(t, kept)'
<1>1. TypeOK
  BY DEF IInv
<1>2. faults' \in 0..MaxTrouble
  BY <1>1, Holds, TransportAssumption DEF TransportAssumption, TypeOK, TransportTypeOK, Fault
<1>3. TypeOK'
  BY <1>1, <1>2 DEF Local, TypeOK, StoreTypeOK, SfuTypeOK, TransportTypeOK
<1>4. ASSUME NEW t \in Session \ {s}, NEW kept \in Cares, Sound(t, kept) PROVE Sound(t, kept)'
  <2>1. Stayed(t)
    BY <1>1, Holds, StoreStays
  <2> QED
    BY <1>1, <1>4, <2>1, OthersFit DEF Local, Calm
<1> QED
  BY <1>3, <1>4 DEF IInv, Registered

LEMMA LocalKeeps ==
  ASSUME IInv, NEW s \in Session, Local(s),
         \A kept \in Cares : Sound(s, kept) => Sound(s, kept)',
         UNCHANGED <<worker, session, told, kind, process, faults, incidents>>, sweep' \in Sweep
  PROVE  IInv' /\ Harmless
<1>1. /\ TypeOK' /\ Registered'
      /\ \A t \in Session \ {s}, kept \in Cares : Sound(t, kept) => Sound(t, kept)'
  BY LocalTypes
<1>2. Harmless
  BY <1>1 DEF Harmless
<1> QED
  BY <1>1, <1>2, HarmlessKeeps

\* A call of s fails.
LEMMA FaultKeeps ==
  ASSUME IInv, NEW s \in Session, Local(s), Sound(s, {})',
         UNCHANGED <<worker, session, told, kind, process, incidents>>, Fault, sweep' \in Sweep
  PROVE  IInv' /\ Harms(s)
<1>1. /\ TypeOK' /\ Registered'
      /\ \A t \in Session \ {s}, kept \in Cares : Sound(t, kept) => Sound(t, kept)'
  BY LocalTypes
<1>2. Harms(s)
  BY <1>1, Holds DEF Harms, Fault, IInv
<1>3. \A t \in Session : Sound(t, {})'
  BY <1>1, Least DEF IInv
<1> QED
  BY <1>1, <1>2, <1>3 DEF IInv

LEMMA WebrtcKeeps ==
  ASSUME IInv, NEW s \in Session, WebrtcStep(s) \/ Admitted(s)
  PROVE  IInv' /\ (Harmless \/ Harms(s))
<1>1. TypeOK /\ Sound(s, {})
  BY DEF IInv
<1>2. CASE RequestFails(s)
  BY <1>1, <1>2, RequestFailsFits, FaultKeeps DEF RequestFails, store, TypeOK, TransportTypeOK
<1>3. CASE WebrtcAnswers(s)
  <2>1. ASSUME NEW kept, Sound(s, kept)
        PROVE  Local(s) /\ Sound(s, kept)'
    BY <1>1, <1>3, <2>1, RouterIsUpFits, TransportIsUpFits, ConnectedFits, ConnectedLateFits, WhipAnswersFits,
       WhipRefusedFits, ProducedFits, ProducedLateFits, ProducerGraceFits, IceGraceFits,
       VideoOutFits, AudioOutFits
       DEF WebrtcAnswers
  <2>2. UNCHANGED elsewhere
    BY <1>3
       DEF WebrtcAnswers, RouterIsUp, TransportIsUp, Connected, ConnectedLate, WhipAnswers, WhipRefused,
           Produced, ProducedLate, ProducerGrace, IceGrace, VideoOut, AudioOut
  <2> QED
    BY <1>1, <2>1, <2>2, LocalKeeps DEF elsewhere, TypeOK, TransportTypeOK
<1>4. CASE \/ AskCapabilities(s) \/ AskTransport(s) \/ AskConnect(s) \/ AskProduce(s)
           \/ StopProduce(s) \/ SocketCloses(s)
           \/ IceConnects(s) \/ IceDisconnects(s) \/ WhipEnds(s)
           \/ ViewerJoins(s) \/ ViewerAsks(s) \/ ViewerLeaves(s)
           \/ OpenEgress(s) \/ CloseEgress(s) \/ Admitted(s)
  <2>1. ASSUME NEW kept, Sound(s, kept)
        PROVE  Local(s) /\ Sound(s, kept)'
    BY <1>1, <1>4, <2>1, AskCapabilitiesFits, AskTransportFits, AskConnectFits, AskProduceFits,
       StopProduceFits, SocketClosesFits, IceConnectsFits, IceDisconnectsFits, WhipEndsFits,
       ViewerJoinsFits, ViewerAsksFits, ViewerLeavesFits, OpenEgressFits, CloseEgressFits,
       AdmittedFits
  <2>2. UNCHANGED elsewhere
    BY <1>4
       DEF AskCapabilities, AskTransport, AskConnect, AskProduce, StopProduce, SocketCloses,
           IceConnects, IceDisconnects, WhipEnds, ViewerJoins, ViewerAsks, ViewerLeaves,
           OpenEgress, CloseEgress, Admitted
  <2> QED
    BY <1>1, <2>1, <2>2, LocalKeeps DEF elsewhere, TypeOK, TransportTypeOK
<1> QED
  BY <1>2, <1>3, <1>4 DEF WebrtcStep

LEMMA JsmpegKeeps ==
  ASSUME IInv, NEW s \in Session, JsmpegStep(s) \/ Accept(s)
  PROVE  IInv' /\ Harmless
<1>1. TypeOK /\ Sound(s, {})
  BY DEF IInv
<1>2. ASSUME NEW kept, Sound(s, kept)
      PROVE  Local(s) /\ Sound(s, kept)'
  BY <1>1, <1>2, InfoSetFits, BytesFits, PostClosesFits, WatchFits, UnwatchFits, AcceptFits
     DEF JsmpegStep
<1>3. UNCHANGED <<worker, session, told, kind, process, sweep, faults, incidents>>
  BY DEF JsmpegStep, InfoSet, Bytes, PostCloses, Watch, Unwatch, Accept, untouched
<1> QED
  BY <1>1, <1>2, <1>3, LocalKeeps DEF TypeOK, TransportTypeOK

\* Steps of the tables, of the runtime and of the loop that touch no publish.
LEMMA QuietKeeps ==
  ASSUME IInv, UNCHANGED <<conn, room, calls, kind, faults>>, StoreTypeOK', Registered',
         process' \in Process, process.pc = "gone" => process'.pc = "gone",
         sweep' \in Sweep, incidents' \in 0..MaxTrouble,
         \/ UNCHANGED session \/ heartbeat(self)
         \/ \E s \in Session : finish(s) \/ transition(s, "failed") \/ requestEnd(s)
  PROVE  IInv' /\ Harmless
<1>1. TypeOK
  BY DEF IInv
<1>2. TypeOK'
  BY <1>1 DEF TypeOK, SfuTypeOK, TransportTypeOK
<1>3. ASSUME NEW t \in Session, NEW kept \in Cares, Sound(t, kept)
      PROVE  Sound(t, kept)'
  <2>1. Stayed(t) /\ Calm
    BY <1>1, Holds, StoreStays DEF Calm
  <2> QED
    BY <1>1, <1>3, <2>1, OthersFit
<1>4. Harmless
  BY <1>3 DEF Harmless
<1> QED
  BY <1>2, <1>4, HarmlessKeeps

LEMMA SystemTypes ==
  ASSUME IInv
  PROVE  /\ TypeOK /\ StoreTypeOK /\ process \in Process /\ sweep \in Sweep
         /\ faults \in 0..MaxTrouble /\ incidents \in 0..MaxTrouble
         /\ In("held") \subseteq Session
         /\ Incident => incidents' \in 0..MaxTrouble
         /\ self \in Worker /\ Registered /\ worker[self] \in WorkerRow
BY TransportAssumption, Self
   DEF IInv, TypeOK, StoreTypeOK, TransportTypeOK, Incident, TransportAssumption, In

LEMMA WorkerMoves ==
  ASSUME IInv, NEW from, NEW to \in {"draining", "stopped", "lost"}, setWorker(self, from, to),
         UNCHANGED <<session, told>>
  PROVE  StoreTypeOK' /\ Registered'
<1>1. StoreTypeOK'
  BY SystemTypes, SetWorkerType DEF StoreTypeOK
<1>2. CASE worker[self].state \in from
  <2>1. worker'[self] = [worker[self] EXCEPT !.state = to,
                                             !.age = IF to \in ALIVE THEN @ ELSE 0]
    BY <1>2, SystemTypes DEF setWorker, StoreTypeOK
  <2>2. worker'[self].state = to
    BY <2>1, SystemTypes DEF WorkerRow
  <2> QED
    BY <1>1, <2>2 DEF Registered
<1>3. CASE worker[self].state \notin from
  BY <1>1, <1>3, SystemTypes DEF setWorker, Registered
<1> QED
  BY <1>2, <1>3

LEMMA CoordinatorKeeps ==
  ASSUME IInv, Coordinator \/ \E s \in Session : RequestEnd(s)
  PROVE  IInv' /\ Harmless
<1>1. CASE Lose
  <2>1. /\ UNCHANGED <<session, told, conn, room, calls, kind, process, sweep, faults>>
        /\ lose(self) /\ incidents' \in 0..MaxTrouble
    BY <1>1, SystemTypes DEF Lose, Silent, here_
  <2>2. StoreTypeOK' /\ Registered'
    BY <2>1, SystemTypes, WorkerMoves DEF lose
  <2> QED
    BY <2>1, <2>2, SystemTypes, QuietKeeps
<1>2. ASSUME NEW s \in Session, FailSession(s)
      PROVE  IInv' /\ Harmless
  <2>1. /\ UNCHANGED <<worker, conn, room, calls, kind, process, sweep, faults>>
        /\ transition(s, "failed") /\ incidents' \in 0..MaxTrouble
    BY <1>2, SystemTypes DEF FailSession, Silent, here_
  <2>2. StoreTypeOK' /\ Registered'
    BY <2>1, SystemTypes, TransitionStores DEF STATES, Registered
  <2> QED
    BY <2>1, <2>2, SystemTypes, QuietKeeps
<1>3. ASSUME NEW s \in Session, RequestEnd(s)
      PROVE  IInv' /\ Harmless
  <2>1. /\ UNCHANGED <<worker, told, conn, room, calls, kind, process, sweep, faults>>
        /\ requestEnd(s) /\ incidents' \in 0..MaxTrouble
    BY <1>3, SystemTypes DEF RequestEnd, requestEnd, here_
  <2>2. StoreTypeOK' /\ Registered'
    BY <2>1, SystemTypes DEF requestEnd, StoreTypeOK, SessionRow, Registered
  <2> QED
    BY <2>1, <2>2, SystemTypes, QuietKeeps
<1> QED
  BY <1>1, <1>2, <1>3 DEF Coordinator

LEMMA RuntimeKeeps ==
  ASSUME IInv, Beat \/ Drain \/ DrainDeadline \/ ExitWhenIdle \/ WriteStop
  PROVE  IInv' /\ Harmless
<1>1. CASE Beat
  <2>1. /\ UNCHANGED <<told, conn, room, calls, kind, faults, incidents>>
        /\ heartbeat(self) /\ process.pc = "up"
    BY <1>1 DEF Beat, heartbeat, sfu, trouble
  <2>2. process' \in Process /\ sweep' \in Sweep
    <3>1. CASE Alive(self)
      BY <1>1, <3>1, SystemTypes DEF Beat, Process, Alive, ALIVE, Registered
    <3>2. CASE ~Alive(self)
      <4>1. [process EXCEPT !.me = "lost", !.pc = "exiting"] \in Process
        BY SystemTypes DEF Process
      <4>2. [at |-> {}, todo |-> In("held")] \in Sweep
        BY SystemTypes DEF Sweep
      <4> QED
        BY <1>1, <3>2, <4>1, <4>2 DEF Beat
    <3> QED
      BY <3>1, <3>2
  <2>3. StoreTypeOK' /\ Registered'
    BY <2>1, SystemTypes, HeartbeatStores DEF heartbeat, Registered, StoreTypeOK, WorkerRow
  <2> QED
    BY <2>1, <2>2, <2>3, SystemTypes, QuietKeeps
<1>2. CASE Drain
  <2>1. /\ UNCHANGED <<session, told, conn, room, calls, kind, process, sweep, faults>>
        /\ drain(self) /\ incidents' \in 0..MaxTrouble
    BY <1>2, SystemTypes DEF Drain, sfu
  <2>2. StoreTypeOK' /\ Registered'
    BY <2>1, SystemTypes, WorkerMoves DEF drain
  <2> QED
    BY <2>1, <2>2, SystemTypes, QuietKeeps
<1>3. CASE DrainDeadline \/ ExitWhenIdle
  <2>1. /\ UNCHANGED <<worker, session, told, conn, room, calls, kind, faults, incidents>>
        /\ process.pc = "up"
    BY <1>3 DEF DrainDeadline, ExitWhenIdle, store, sfu, trouble
  <2>2. process' \in Process /\ sweep' \in Sweep
    <3>1. [at |-> {}, todo |-> In("held")] \in Sweep
      BY SystemTypes DEF Sweep
    <3>2. /\ [process EXCEPT !.deadlineHandled = TRUE] \in Process
          /\ [process EXCEPT !.pc = "exiting"] \in Process
      BY SystemTypes DEF Process
    <3> QED
      BY <1>3, <3>1, <3>2, SystemTypes DEF DrainDeadline, ExitWhenIdle
  <2>3. StoreTypeOK' /\ Registered'
    BY <2>1, SystemTypes DEF StoreTypeOK, Registered
  <2> QED
    BY <2>1, <2>2, <2>3, SystemTypes, QuietKeeps
<1>4. CASE WriteStop
  <2>1. /\ UNCHANGED <<session, told, conn, room, calls, kind, process, sweep, faults, incidents>>
        /\ stop(self)
    BY <1>4 DEF WriteStop, sfu, trouble
  <2>2. StoreTypeOK' /\ Registered'
    BY <2>1, SystemTypes, WorkerMoves DEF stop
  <2> QED
    BY <2>1, <2>2, SystemTypes, QuietKeeps
<1> QED
  BY <1>1, <1>2, <1>3, <1>4

\* The process is gone: of each publish only what its row says is left.
LEMMA TornKeeps ==
  ASSUME IInv, Exit \/ Crash
  PROVE  IInv' /\ Harmless
<1>1. /\ Torn /\ UNCHANGED <<worker, session, told, kind, faults>>
      /\ incidents' \in 0..MaxTrouble
  BY SystemTypes DEF Exit, Crash, store, trouble
<1>2. ASSUME NEW t \in Session
      PROVE  /\ conn'[t] \in Conn /\ room'[t] = NoRoom /\ calls'[t] = {}
             /\ session[t].state = "none" => conn'[t] = NoConn
             /\ session[t].state # "none" =>
                  /\ conn'[t].phase = "done" /\ conn'[t].media = conn[t].media
                  /\ conn'[t].going = "no" /\ ~conn'[t].watched
  <2>1. [NoConn EXCEPT !.phase = "done", !.mode = conn[t].mode, !.media = conn[t].media] \in Conn
    BY SystemTypes, Holds DEF NoConn, Conn
  <2> QED
    <3>1. CASE session[t].state = "none"
      BY <1>1, <3>1 DEF Torn, NoConn, Conn
    <3>2. PICK c \in Conn :
            c = [NoConn EXCEPT !.phase = "done", !.mode = conn[t].mode, !.media = conn[t].media]
      BY <2>1
    <3>3. c.phase = "done" /\ c.media = conn[t].media /\ c.going = "no" /\ ~c.watched
      BY <3>2 DEF NoConn
    <3> QED
      BY <1>1, <3>1, <3>2, <3>3 DEF Torn
<1>3. TypeOK'
  <2>1. conn' \in [Session -> Conn] /\ room' \in [Session -> Room]
    BY <1>1, <1>2 DEF Torn, NoRoom, Room
  <2>2. calls' \in [Session -> SUBSET Call] /\ sweep' \in Sweep /\ process' \in Process
    BY <1>1, SystemTypes DEF Torn, NoSweep, Sweep, Process
  <2> QED
    BY <1>1, <2>1, <2>2, SystemTypes
       DEF TypeOK, SfuTypeOK, TransportTypeOK, StoreTypeOK
<1>4. ASSUME NEW t \in Session, NEW kept PROVE Sound(t, kept)'
  <2>1. Flowed(t) /\ process'.pc = "gone"
    BY <1>1, SystemTypes DEF IInv, Sound, Torn, Process
  <2> QED
    BY <1>1, <1>2, <2>1
       DEF Sound, Inserted, Early, Roomless, Flowed, Attended, SettingUp, Finished, Watched,
           Sent, EARLY, NoConn, NoRoom
<1>5. Registered'
  BY <1>1, SystemTypes DEF Registered
<1> QED
  BY <1>3, <1>4, <1>5 DEF IInv, Harmless

LEMMA SweepKeeps ==
  ASSUME IInv, NEW s \in Session, SweepNext(s) \/ EndRequested(s)
  PROVE  IInv' /\ Harmless
<1>0. TypeOK /\ conn[s] \in Conn
  BY Holds DEF IInv
<1>1. /\ UNCHANGED <<worker, kind, process, faults, incidents>>
      /\ sweep' \in Sweep
  BY SystemTypes DEF SweepNext, EndRequested, store, trouble, Sweep
<1>2. CASE /\ conn[s].phase = "held" /\ conn' = [conn EXCEPT ![s] = Ended(@)]
           /\ closeSession({s}) /\ UNCHANGED <<session, told>>
  <2>1. ASSUME NEW kept, Sound(s, kept)
        PROVE  Local(s) /\ Sound(s, kept)'
    BY <1>0, <1>2, <2>1, EndFits
  <2>2. Local(s)
    BY <2>1 DEF IInv
  <2> QED
    BY <1>1, <1>2, <2>1, <2>2, LocalKeeps
<1>3. CASE UNCHANGED <<conn, sfu>> /\ ((finish(s) \/ UNCHANGED <<session, told>>))
  <2>1. StoreTypeOK' /\ Registered'
    BY <1>1, <1>3, SystemTypes, FinishStores DEF StoreTypeOK, Registered
  <2> QED
    BY <1>1, <1>3, <2>1, SystemTypes, QuietKeeps DEF sfu
<1> QED
  BY <1>2, <1>3 DEF SweepNext, EndRequested, store

\* A publish that is dropped, or begins: nothing has been set up for it.
LEMMA PublishKeeps ==
  ASSUME IInv, NEW s \in Session,
         (\E d \in Definition : Refuse(s, d)) \/ (\E m \in Modes : Publish(s, m))
  PROVE  IInv' /\ Harmless
<1>0. TypeOK /\ conn[s] \in Conn
  BY Holds DEF IInv
<1>1. PICK c \in Conn :
        /\ conn' = [conn EXCEPT ![s] = c] /\ c.phase \in {"idle", "admitting"}
        /\ c.media = FALSE /\ c.going = "no" /\ c.joined = FALSE /\ c.timer = "none"
        /\ c.watched = FALSE
  <2>1. CASE \E d \in Definition : Refuse(s, d)
    <3>1. NoConn \in Conn
      BY DEF NoConn, Conn
    <3> QED
      BY <2>1, <3>1 DEF Refuse, NoConn
  <2>2. ASSUME NEW m \in Modes, Publish(s, m)
        PROVE  LET new == [NoConn EXCEPT !.phase = "admitting", !.mode = m, !.here = TRUE]
               IN  conn' = [conn EXCEPT ![s] = new] /\ new \in Conn
    BY <2>2 DEF Publish, NoConn, Conn, Modes
  <2> QED
    BY <2>1, <2>2 DEF NoConn
<1>2. /\ conn[s].phase \in {"idle", "admitting"}
      /\ UNCHANGED <<worker, session, told, kind, process, sweep, faults, incidents>>
      /\ UNCHANGED sfu
  <2>1. CASE \E d \in Definition : Refuse(s, d)
    BY <2>1 DEF Refuse, store, trouble
  <2>2. CASE \E m \in Modes : Publish(s, m)
    <3>1. conn[s] = NoConn /\ UNCHANGED <<store, sfu, kind, process, sweep, trouble>>
      BY <2>2 DEF Publish
    <3>2. NoConn.phase = "idle"
      BY DEF NoConn
    <3> QED
      BY <3>1, <3>2 DEF store, trouble
  <2> QED
    BY <2>1, <2>2
<1>3. /\ Local(s) /\ conn'[s] = c /\ room'[s] = room[s] /\ calls'[s] = calls[s]
      /\ session'[s] = session[s]
  BY <1>0, <1>1, <1>2, ConnFits DEF IInv
<1>4. ASSUME NEW kept, Sound(s, kept) PROVE Sound(s, kept)'
  BY <1>4, <1>0, <1>1, <1>2, <1>3
     DEF Sound, Inserted, Early, Roomless, Flowed, Attended, SettingUp, Finished, Watched,
         Sent, EARLY, NoRoom
<1> QED
  BY <1>2, <1>3, <1>4, SystemTypes, LocalKeeps

LEMMA CallFailsKeeps ==
  ASSUME IInv, NEW s \in Session, CallFails(s)
  PROVE  IInv' /\ Harms(s)
<1>0. TypeOK /\ Sound(s, {}) /\ conn[s] \in Conn
  BY Holds DEF IInv
<1>1. PICK c \in Conn :
        /\ conn' = [conn EXCEPT ![s] = c]
        /\ \/ conn[s].phase = "admitting" /\ c = NoConn
           \/ conn[s].phase = "ending" /\ c = [conn[s] EXCEPT !.phase = "done"]
           \/ c = [conn[s] EXCEPT !.going = "no"]
  <2>1. /\ NoConn \in Conn /\ [conn[s] EXCEPT !.phase = "done"] \in Conn
        /\ [conn[s] EXCEPT !.going = "no"] \in Conn
    BY <1>0 DEF NoConn, Conn
  <2> QED
    BY <1>0, <2>1, Holds DEF CallFails
<1>2. /\ UNCHANGED <<worker, session, told, kind, process, incidents>> /\ UNCHANGED sfu
      /\ Fault /\ sweep' \in Sweep
  BY <1>0, SystemTypes, Holds DEF CallFails, Fault, store, Sweep, NoSweep
<1>3. /\ Local(s) /\ conn'[s] = c /\ room'[s] = room[s] /\ calls'[s] = calls[s]
      /\ session'[s] = session[s]
  BY <1>0, <1>1, <1>2, ConnFits
<1>4. Sound(s, {})'
  <2>1. CASE conn[s].phase = "admitting" /\ c = NoConn
    BY <1>0, <1>2, <1>3, <2>1
       DEF Sound, Inserted, Early, Roomless, Flowed, Attended, SettingUp, Finished, Watched,
           Sent, EARLY, NoRoom, NoConn
  <2>2. CASE conn[s].phase = "ending" /\ c = [conn[s] EXCEPT !.phase = "done"]
    BY <1>0, <1>2, <1>3, <2>2
       DEF Sound, Inserted, Early, Roomless, Flowed, Attended, SettingUp, Finished, Watched,
           Sent, EARLY, Conn
  <2>3. CASE c = [conn[s] EXCEPT !.going = "no"]
    BY <1>0, <1>2, <1>3, <2>3
       DEF Sound, Inserted, Early, Roomless, Flowed, Attended, SettingUp, Finished, Watched,
           Sent, EARLY, Conn
  <2> QED
    BY <1>1, <2>1, <2>2, <2>3
<1> QED
  BY <1>2, <1>3, <1>4, FaultKeeps

\* The three writes of a publish.  Admitted leaves every other row as open as it was.
LEMMA AdmitKeeps ==
  ASSUME IInv, NEW s \in Session, NEW d \in Definition, Admit(s, d)
  PROVE  IInv' /\ Harmless
<1>0. TypeOK /\ StoreTypeOK /\ conn[s] \in Conn
  BY Holds DEF IInv
<1>1. /\ admit(s, d, self) /\ conn' = [conn EXCEPT ![s].phase = "admitted"]
      /\ conn[s].phase = "admitting"
      /\ UNCHANGED <<worker, room, calls, kind, process, sweep, faults, incidents>>
  BY DEF Admit, sfu, trouble
<1>2. PICK c \in Conn : c = [conn[s] EXCEPT !.phase = "admitted"] /\ conn' = [conn EXCEPT ![s] = c]
  BY <1>0, <1>1, Holds DEF Conn
<1>3. StoreTypeOK' /\ TypeOK'
  <2>1. StoreTypeOK'
    BY <1>0, <1>1, AdmitStores, SystemTypes
  <2>2. conn' \in [Session -> Conn]
    BY <1>0, <1>2, Holds
  <2> QED
    BY <1>0, <1>1, <2>1, <2>2 DEF TypeOK, SfuTypeOK, TransportTypeOK
<1>4. ASSUME NEW kept, Sound(s, kept) PROVE Sound(s, kept)'
  <2>1. session'[s].state = "starting"
    <3>1. session'[s] = insert(d, self)
      BY <1>0, <1>1, AdmissionKeeps
    <3> QED
      BY <3>1 DEF insert
  <2>2. conn'[s] = c
    BY <1>0, <1>2, Holds
  <2> QED
    BY <1>0, <1>1, <1>2, <1>4, <2>1, <2>2
       DEF Sound, Inserted, Early, Roomless, Flowed, Attended, SettingUp, Finished, Watched,
           Sent, EARLY, Conn, NoRoom
<1>5. ASSUME NEW t \in Session \ {s}, NEW kept, Sound(t, kept) PROVE Sound(t, kept)'
  <2>1. Kept(t)
    BY <1>0, <1>1, AdmissionKeeps
  <2>2. session'[t].state \in {session[t].state, "failed"}
    BY <1>0, <1>1, MoveTo DEF admit, StoreTypeOK, STATES
  <2>3. conn'[t] = conn[t]
    BY <1>0, <1>2, Holds
  <2> QED
    BY <1>0, <1>1, <1>5, <2>1, <2>2, <2>3, OthersFit DEF Stayed, Calm
<1>6. Harmless
  BY <1>4, <1>5 DEF Harmless
<1>7. Registered'
  BY <1>1, SystemTypes DEF Registered
<1> QED
  BY <1>3, <1>6, <1>7, HarmlessKeeps

LEMMA GoLiveKeeps ==
  ASSUME IInv, NEW s \in Session, GoLive(s)
  PROVE  IInv' /\ Harmless
<1>0. TypeOK /\ StoreTypeOK /\ conn[s] \in Conn
  BY Holds DEF IInv
<1>1. /\ transition(s, "live") /\ conn[s].going = "transition"
      /\ UNCHANGED <<worker, kind, process, sweep, faults, incidents>>
  BY DEF GoLive, trouble
<1>2. PICK c \in Conn : c = [conn[s] EXCEPT !.going = "no"]
  BY <1>0 DEF Conn
<1>3. /\ c.phase = conn[s].phase /\ c.mode = conn[s].mode /\ c.media = conn[s].media
      /\ c.going = "no" /\ c.joined = conn[s].joined /\ c.here = conn[s].here
      /\ c.timer = conn[s].timer /\ c.watched = conn[s].watched /\ c.handle = conn[s].handle
  BY <1>0, <1>2 DEF Conn
<1>4. CASE /\ c.phase = "held" /\ ~canTransition(session[s].state, "live")
           /\ conn' = [conn EXCEPT ![s] = Ended(c)] /\ closeSession({s})
  <2>1. UNCHANGED <<session, told>>
    <3>1. session' = session
      BY <1>0, <1>1, <1>4 DEF transition, applyTransition, StoreTypeOK
    <3>2. told' = told
      <4>1. announcement(session[s], "live") = <<>>
        BY <1>4 DEF announcement
      <4>2. told[s] \o <<>> = told[s]
        BY <1>0 DEF StoreTypeOK
      <4> QED
        BY <1>0, <1>1, <4>1, <4>2 DEF transition, StoreTypeOK
    <3> QED
      BY <3>1, <3>2
  <2>2. ASSUME NEW kept, Sound(s, kept)
        PROVE  Local(s) /\ Sound(s, kept)'
    BY <1>0, <1>3, <1>4, <2>1, <2>2, EndFits
  <2>3. Local(s)
    BY <2>2 DEF IInv
  <2> QED
    BY <1>1, <2>1, <2>2, <2>3, SystemTypes, LocalKeeps
<1>5. CASE conn' = [conn EXCEPT ![s] = c] /\ UNCHANGED sfu
  <2>1. TypeOK'
    <3>1. StoreTypeOK'
      BY <1>0, <1>1, TransitionStores DEF STATES
    <3>2. conn' \in [Session -> Conn] /\ UNCHANGED <<room, calls>>
      BY <1>5, Holds, <1>0 DEF sfu
    <3> QED
      BY <1>0, <1>1, <3>1, <3>2 DEF TypeOK, SfuTypeOK, TransportTypeOK
  <2>2. conn'[s] = c /\ room'[s] = room[s] /\ calls'[s] = calls[s]
    BY <1>0, <1>5, Holds DEF sfu
  <2>3. Kept(s)
    BY <1>0, <1>1, TransitionKeeps DEF STATES
  <2>4. ASSUME NEW kept, Sound(s, kept)
        PROVE  Sound(s, kept)'
    BY <1>0, <1>1, <1>3, <2>2, <2>3, <2>4
       DEF Sound, Inserted, Early, Roomless, Flowed, Attended, SettingUp, Finished, Watched,
           Sent, EARLY, Kept
  <2>5. ASSUME NEW t \in Session \ {s}, NEW kept, Sound(t, kept)
        PROVE  Sound(t, kept)'
    <3>1. session'[t] = session[t] /\ Kept(t)
      BY <1>0, <1>1, TransitionKeeps DEF transition, STATES, StoreTypeOK
    <3>2. conn'[t] = conn[t] /\ room'[t] = room[t] /\ calls'[t] = calls[t]
      BY <1>0, <1>5, Holds DEF sfu
    <3> QED
      BY <1>0, <1>1, <2>5, <3>1, <3>2, OthersFit DEF Stayed, Calm
  <2>6. Harmless
    BY <2>4, <2>5 DEF Harmless
  <2>7. Registered'
    BY <1>1, SystemTypes DEF Registered
  <2> QED
    BY <2>1, <2>6, <2>7, HarmlessKeeps
<1> QED
  BY <1>2, <1>4, <1>5 DEF GoLive

LEMMA FinishEndKeeps ==
  ASSUME IInv, NEW s \in Session, FinishEnd(s)
  PROVE  IInv' /\ Harmless
<1>0. TypeOK /\ StoreTypeOK /\ conn[s] \in Conn
  BY Holds DEF IInv
<1>1. /\ finish(s) /\ conn[s].phase = "ending" /\ conn' = [conn EXCEPT ![s].phase = "done"]
      /\ UNCHANGED <<worker, room, calls, kind, process, faults, incidents>>
      /\ sweep' \in Sweep
  BY SystemTypes DEF FinishEnd, sfu, trouble, Sweep
<1>2. PICK c \in Conn : c = [conn[s] EXCEPT !.phase = "done"] /\ conn' = [conn EXCEPT ![s] = c]
  BY <1>0, <1>1, Holds DEF Conn
<1>3. TypeOK'
  <2>1. StoreTypeOK'
    BY <1>0, <1>1, FinishStores
  <2>2. conn' \in [Session -> Conn]
    BY <1>0, <1>2, Holds
  <2> QED
    BY <1>0, <1>1, <2>1, <2>2 DEF TypeOK, SfuTypeOK, TransportTypeOK
<1>4. \A t \in Session : Stayed(t)
  BY <1>0, <1>1, StoreStays
<1>5. ASSUME NEW kept, Sound(s, kept)
      PROVE  Sound(s, kept)'
  <2>1. ~Open(s)' /\ conn'[s] = c
    BY <1>0, <1>1, <1>2, FinishKeeps, Holds
  <2> QED
    BY <1>0, <1>1, <1>2, <1>4, <1>5, <2>1
       DEF Sound, Inserted, Early, Roomless, Flowed, Attended, SettingUp, Finished, Watched,
           Sent, EARLY, Conn, Stayed, Kept
<1>6. ASSUME NEW t \in Session \ {s}, NEW kept, Sound(t, kept)
      PROVE  Sound(t, kept)'
  <2>1. conn'[t] = conn[t]
    BY <1>0, <1>2, Holds
  <2> QED
    BY <1>0, <1>1, <1>4, <1>6, <2>1, OthersFit DEF Calm
<1>7. Harmless
  BY <1>5, <1>6 DEF Harmless
<1>8. Registered'
  BY <1>1, SystemTypes DEF Registered
<1> QED
  BY <1>3, <1>7, <1>8, HarmlessKeeps

-----------------------------------------------------------------------------
(* The theorems                                                            *)

LEMMA IInvStarts ==
  ASSUME Init
  PROVE  IInv
<1>0. 0 \in 0..MaxTrouble /\ 1 \in Worker
  BY TransportAssumption, Self DEF TransportAssumption, self
<1>1. StoreTypeOK
  <2>1. \A w \in Worker : [state |-> IF w = self THEN "ready" ELSE "none", age |-> 0] \in WorkerRow
    BY Bounds DEF WorkerRow, ALIVE
  <2>2. NoSession \in SessionRow /\ <<>> \in Seq(Event)
    BY Bounds DEF NoSession, SessionRow
  <2> QED
    BY <2>1, <2>2 DEF Init, TransportInit, StoreTypeOK
<1>2. SfuTypeOK
  BY DEF Init, SfuInit, SfuTypeOK, NoRoom, Room
<1>3. TransportTypeOK
  BY <1>0 DEF Init, TransportInit, TransportTypeOK, Process, NoConn, Conn, NoSweep, Sweep
<1>4. ASSUME NEW s \in Session PROVE Sound(s, {})
  BY DEF Init, SfuInit, TransportInit, NoConn, NoSession, NoRoom,
         Sound, Inserted, Early, Roomless, Flowed, Attended, SettingUp, Finished, Watched, Sent
<1>5. Registered
  BY Self DEF Init, TransportInit, Registered
<1> QED
  BY <1>1, <1>2, <1>3, <1>4, <1>5 DEF IInv, TypeOK

LEMMA IInvStays ==
  ASSUME IInv, [Next]_vars
  PROVE  IInv' /\ (Harmless \/ \E s \in Session : Harms(s))
<1>1. CASE Coordinator \/ Beat \/ Drain \/ Crash
  BY <1>1, CoordinatorKeeps, RuntimeKeeps, TornKeeps
<1>2. CASE WorkerDuty
  BY <1>2, RuntimeKeeps, TornKeeps, SweepKeeps DEF WorkerDuty
<1>3. ASSUME NEW s \in Session, RequestEnd(s) \/ CallFails(s) \/ \E m \in Modes : Publish(s, m)
      PROVE  IInv' /\ (Harmless \/ Harms(s))
  BY <1>3, CoordinatorKeeps, CallFailsKeeps, PublishKeeps
<1>4. ASSUME NEW s \in Session, Commits(s)
      PROVE  IInv' /\ (Harmless \/ Harms(s))
  BY <1>4, AdmitKeeps, PublishKeeps, JsmpegKeeps, WebrtcKeeps, GoLiveKeeps, FinishEndKeeps,
     SweepKeeps
     DEF Commits
<1>5. ASSUME NEW s \in Session, JsmpegStep(s) \/ WebrtcStep(s)
      PROVE  IInv' /\ (Harmless \/ Harms(s))
  BY <1>5, JsmpegKeeps, WebrtcKeeps
<1>6. CASE UNCHANGED vars
  <2>1. StoreTypeOK' /\ Registered'
    BY <1>6, SystemTypes DEF vars, StoreTypeOK, Registered
  <2> QED
    BY <1>6, <2>1, SystemTypes, QuietKeeps DEF vars
<1> QED
  BY <1>1, <1>2, <1>3, <1>4, <1>5, <1>6 DEF Next

LEMMA IInvHolds == Spec => []IInv
<1>1. Init => IInv
  BY IInvStarts
<1>2. IInv /\ [Next]_vars => IInv'
  BY IInvStays
<1> QED
  BY <1>1, <1>2, PTL DEF Spec

\* The tables, the process, what it holds and what the SFU holds stay well formed.
THEOREM TransportTypeCorrect == Spec => []TypeOK
<1>1. IInv => TypeOK
  BY DEF IInv
<1> QED
  BY <1>1, IInvHolds, PTL

\* A session is live only when its media has come (jsmpeg.js, webrtc.js).
THEOREM LiveHasMediaHolds == Spec => []LiveHasMedia
<1>1. IInv => LiveHasMedia
  BY DEF IInv, Sound, Flowed, LiveHasMedia
<1> QED
  BY <1>1, IInvHolds, PTL

\* What a record and what RTP have behind them, in terms of what is kept.
Ledger == \A s \in Session :
  /\ ~Locked(s) <=> Sound(s, {"record"})
  /\ ~Astray(s) <=> Sound(s, {"egress"})

LEMMA LedgerHolds == Spec => []Ledger
<1>1. ASSUME IInv, NEW s \in Session
      PROVE  /\ ~Locked(s) <=> Sound(s, {"record"})
             /\ ~Astray(s) <=> Sound(s, {"egress"})
  <2>0. conn[s] \in Conn /\ Sound(s, {})
    BY <1>1, Holds DEF IInv
  <2>1. CASE conn[s].phase = "held"
    BY <2>0, <2>1
       DEF Sound, Attended, SettingUp, Finished, Sent, Locked, Astray, Behind, LeftEarly, Conn
  <2>2. CASE conn[s].phase # "held"
    BY <2>0, <2>2
       DEF Sound, Inserted, SettingUp, Finished, Sent, Locked, Astray, Behind, LeftEarly, Conn,
           Open, OPEN, STATES
  <2> QED
    BY <2>1, <2>2
<1>2. IInv => Ledger
  BY <1>1 DEF Ledger
<1> QED
  BY <1>2, IInvHolds, PTL

\* Failures are counted and never forgotten.
LEMMA FaultsStay ==
  ASSUME IInv, [Next]_vars
  PROVE  faults' >= faults
<1>0. faults \in Nat
  BY Holds DEF IInv
<1>1. CASE UNCHANGED faults
  BY <1>0, <1>1
<1>2. CASE Fault
  BY <1>0, <1>2 DEF Fault
<1>3. UNCHANGED faults \/ Fault
  <2>1. CASE Coordinator \/ Beat \/ WorkerDuty \/ Drain \/ Crash
    BY <2>1 DEF Coordinator, Lose, FailSession, Beat, WorkerDuty, DrainDeadline, ExitWhenIdle,
                WriteStop, Exit, SweepNext, Drain, Crash, trouble
  <2>2. ASSUME NEW s \in Session,
               \/ RequestEnd(s) \/ CallFails(s) \/ Commits(s) \/ JsmpegStep(s)
               \/ \E m \in Modes : Publish(s, m)
        PROVE  UNCHANGED faults \/ Fault
    BY <2>2
       DEF RequestEnd, CallFails, Publish, Commits, Admit, Refuse, Accept, Admitted, GoLive,
           FinishEnd, EndRequested, JsmpegStep, InfoSet, Bytes, PostCloses, Watch, Unwatch,
           trouble, untouched, elsewhere
  <2>3. ASSUME NEW s \in Session, WebrtcStep(s)
        PROVE  UNCHANGED faults \/ Fault
    BY <2>3
       DEF WebrtcStep, WebrtcAnswers, RequestFails, AskCapabilities, AskTransport, AskConnect,
           AskProduce, StopProduce, SocketCloses, IceConnects, IceDisconnects, WhipEnds,
           ViewerJoins, ViewerAsks, ViewerLeaves, OpenEgress, CloseEgress, RouterIsUp,
           TransportIsUp, Connected, ConnectedLate, WhipAnswers, WhipRefused, Produced, ProducedLate,
           ProducerGrace, IceGrace, VideoOut, AudioOut, elsewhere
  <2> QED
    BY <2>1, <2>2, <2>3 DEF Next, vars
<1> QED
  BY <1>1, <1>2, <1>3

\* A record is locked in no other step than one in which a call of its own fails,
\* whatever has failed before (jsmpeg.js, webrtc.js: every path of a set-up that
\* fails, and every way out, ends the session).
THEOREM LocksCostFaultsHolds == Spec => LocksCostFaults
<1>1. ASSUME IInv, Ledger, Ledger', [Next]_vars, NEW s \in Session, Locked(s)', ~Locked(s)
      PROVE  faults' > faults /\ \A t \in Session \ {s} : Locked(t)' => Locked(t)
  <2>1. IInv' /\ (Harmless \/ \E h \in Session : Harms(h))
    BY <1>1, IInvStays
  <2>2. ASSUME NEW t \in Session
        PROVE  /\ ~Locked(t) <=> Sound(t, {"record"})
               /\ (~Locked(t) <=> Sound(t, {"record"}))'
    BY <1>1 DEF Ledger
  <2>3. {"record"} \in Cares
    BY DEF Cares
  <2>4. PICK h \in Session : Harms(h)
    BY <1>1, <2>1, <2>2, <2>3 DEF Harmless
  <2> QED
    BY <1>1, <2>2, <2>3, <2>4 DEF Harms
<1>2. IInv /\ Ledger /\ Ledger' /\ [Next]_vars =>
        [\A s \in Session : Locked(s)' /\ ~Locked(s) =>
           faults' > faults /\ \A t \in Session \ {s} : Locked(t)' => Locked(t)]_vars
  BY <1>1
<1> QED
  BY <1>2, IInvHolds, LedgerHolds, PTL DEF Spec, LocksCostFaults

\* There are never more locked records than failed calls: while no call has failed
\* every open record of a living process has something behind it that ends it,
\* except when its encoder left during the admission.
LockedOnes == {s \in Session : Locked(s)}
LocksBounded == IsFiniteSet(LockedOnes) /\ Cardinality(LockedOnes) <= faults

THEOREM LocksBoundedHolds == Spec => []LocksBounded
<1>1. Init => LocksBounded
  <2>1. Init => LockedOnes = {} /\ faults = 0
    BY DEF Init, TransportInit, NoSession, LockedOnes, Locked, Open, OPEN, STATES
  <2> QED
    BY <2>1, FS_EmptySet DEF LocksBounded
<1>2. ASSUME IInv, IInv', LocksBounded,
             [\A s \in Session : Locked(s)' /\ ~Locked(s) =>
                faults' > faults /\ \A t \in Session \ {s} : Locked(t)' => Locked(t)]_vars,
             faults' >= faults
      PROVE  LocksBounded'
  <2>0. faults \in Nat /\ faults' \in Nat
    BY <1>2, Holds DEF IInv, TypeOK, TransportTypeOK
  <2>1. CASE LockedOnes' \subseteq LockedOnes
    BY <1>2, <2>0, <2>1, Counted DEF LocksBounded
  <2>2. ASSUME NEW s \in Session, Locked(s)', ~Locked(s)
        PROVE  LocksBounded'
    <3>1. ~UNCHANGED vars
      BY <2>2 DEF vars, Locked, Open, Behind, LeftEarly
    <3>2. faults < faults' /\ LockedOnes' \subseteq LockedOnes \cup {s}
      BY <1>2, <2>0, <2>2, <3>1 DEF LockedOnes
    <3> QED
      BY <1>2, <2>0, <3>2, Counted DEF LocksBounded
  <2> QED
    BY <2>1, <2>2 DEF LockedOnes
<1>3. IInv /\ [Next]_vars => faults' >= faults
  BY FaultsStay
<1> QED
  BY <1>1, <1>2, <1>3, IInvHolds, LocksCostFaultsHolds, PTL DEF Spec, LocksCostFaults

\* Viewers and taps of a JSMPEG channel go with it, and RTP goes astray in no other
\* step than one in which a call fails.
THEOREM ReadersAccountedHolds == Spec => ReadersAccounted
<1>1. ASSUME IInv, Ledger, Ledger', [Next]_vars, NEW s \in Session
      PROVE  /\ (conn[s].mode = "jsmpeg" /\ conn[s].watched => conn[s].phase = "held")'
             /\ Astray(s)' /\ ~Astray(s) => faults' > faults
  <2>1. IInv' /\ (Harmless \/ \E h \in Session : Harms(h))
    BY <1>1, IInvStays
  <2>2. Watched(s)'
    BY <2>1 DEF IInv, Sound
  <2>3. /\ ~Astray(s) <=> Sound(s, {"egress"})
        /\ (~Astray(s) <=> Sound(s, {"egress"}))'
    BY <1>1 DEF Ledger
  <2>4. {"egress"} \in Cares
    BY DEF Cares
  <2> QED
    BY <2>1, <2>2, <2>3, <2>4 DEF Harmless, Harms, Watched
<1>2. IInv /\ Ledger /\ Ledger' /\ [Next]_vars =>
        [\A s \in Session :
           /\ (conn[s].mode = "jsmpeg" /\ conn[s].watched => conn[s].phase = "held")'
           /\ Astray(s)' /\ ~Astray(s) => faults' > faults]_vars
  BY <1>1
<1> QED
  BY <1>2, IInvHolds, LedgerHolds, PTL DEF Spec, ReadersAccounted

-----------------------------------------------------------------------------
(* The refinement of SessionLifecycle                                      *)

\* Nothing here touches rows and outbox but the statements of sessions.js.
LEMMA OnlyStatements ==
  ASSUME [Next]_vars
  PROVE  Statement
<1>0. self \in Worker
  BY Self
<1>1. CASE Lose \/ WorkerDuty \/ Drain \/ Crash \/ UNCHANGED vars
  BY <1>1 DEF Lose, WorkerDuty, DrainDeadline, ExitWhenIdle, WriteStop, Exit, SweepNext, Drain,
              Crash, store, vars, Statement
<1>2. CASE Beat
  BY <1>0, <1>2 DEF Beat, Statement
<1>3. ASSUME NEW s \in Session, FailSession(s) \/ GoLive(s)
      PROVE  Statement
  BY <1>3 DEF FailSession, GoLive, Statement
<1>4. ASSUME NEW s \in Session, RequestEnd(s) \/ FinishEnd(s) \/ EndRequested(s)
      PROVE  Statement
  BY <1>4 DEF RequestEnd, FinishEnd, EndRequested, Statement
<1>5. ASSUME NEW s \in Session, NEW d \in Definition, Admit(s, d)
      PROVE  Statement
  BY <1>0, <1>5 DEF Admit, Statement
<1>6. ASSUME NEW s \in Session,
             \/ CallFails(s) \/ JsmpegStep(s) \/ Accept(s) \/ Admitted(s)
             \/ \E d \in Definition : Refuse(s, d)
             \/ \E m \in Modes : Publish(s, m)
      PROVE  UNCHANGED <<session, told>>
  BY <1>6 DEF CallFails, Refuse, Publish, Accept, Admitted, JsmpegStep, InfoSet, Bytes,
              PostCloses, Watch, Unwatch, untouched, elsewhere, store
<1>7. ASSUME NEW s \in Session, WebrtcStep(s)
      PROVE  UNCHANGED <<session, told>>
  BY <1>7 DEF WebrtcStep, WebrtcAnswers, RequestFails, AskCapabilities, AskTransport, AskConnect,
              AskProduce, StopProduce, SocketCloses, IceConnects, IceDisconnects, WhipEnds,
              ViewerJoins, ViewerAsks, ViewerLeaves, OpenEgress, CloseEgress, RouterIsUp,
              TransportIsUp, Connected, ConnectedLate, WhipAnswers, WhipRefused, Produced, ProducedLate,
              ProducerGrace, IceGrace, VideoOut, AudioOut, elsewhere, store
<1> QED
  BY <1>1, <1>2, <1>3, <1>4, <1>5, <1>6, <1>7 DEF Next, Coordinator, Commits, Statement

LEMMA StoreKept == Spec => [](Recounted /\ OneOpenSession)
<1>1. Init => Recounted /\ OneOpenSession
  BY DEF Init, TransportInit, NoSession, Recounted, Story, OneOpenSession, Open, OPEN, STATES
<1>2. IInv /\ Recounted /\ OneOpenSession /\ [Next]_vars => Recounted' /\ OneOpenSession'
  BY Holds, OnlyStatements, StatementWalks, WalkRecounts, StatementExclusive DEF IInv
<1> QED
  BY <1>1, <1>2, IInvHolds, PTL DEF Spec

\* LifecycleSpec (sessions.js as a whole), for these workers too: whatever races,
\* fails or crashes, the rows and the outbox walk the life cycle.
THEOREM LifecycleSpecHolds == Spec => LifecycleSpec
<1>1. Init => Lifecycle!Init
  BY LifecycleInit DEF Init, TransportInit
<1>2. /\ IInv /\ IInv' /\ Recounted /\ OneOpenSession /\ OneOpenSession' /\ [Next]_vars
      => [Lifecycle!Next]_Lifecycle!lifecycle
  <2> SUFFICES ASSUME IInv, IInv', Recounted, OneOpenSession, OneOpenSession', [Next]_vars
               PROVE  Lifecycle!Next
    OBVIOUS
  <2>1. StoreTypeOK /\ StoreTypeOK'
    BY Holds DEF IInv, TypeOK
  <2>2. \A s \in Session : Walks(s)
    BY <2>1, OnlyStatements, StatementWalks
  <2> QED
    BY <2>1, <2>2, WalkRefines
<1> QED
  BY <1>1, <1>2, IInvHolds, StoreKept, PTL DEF Spec, LifecycleSpec, Lifecycle!Spec
=============================================================================
