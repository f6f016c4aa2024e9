----------------------------- MODULE JsmpegIngest -----------------------------
(***************************************************************************)
(* workers/jsmpeg.js: one HTTP POST of MPEG-TS per session.  The bytes are *)
(* what makes a session go live and the end of the POST is what ends it.   *)
(***************************************************************************)
EXTENDS TransportWorker

Jsmpeg(s) == Up /\ conn[s].mode = "jsmpeg"
untouched == <<worker, session, told, room, calls, kind, process, sweep, faults, incidents>>

\* ensureLive, up to its first await.
Flowing(c) == [c EXCEPT !.media = TRUE, !.live = TRUE,
                        !.going = IF c.live THEN @ ELSE "info"]

\* The answer of admit().  A POST that closed meanwhile is not looked at again.
Accept(s) ==
  /\ Jsmpeg(s) /\ conn[s].phase = "admitted"
  /\ LET c == [conn[s] EXCEPT !.phase = "held", !.joined = TRUE]
     IN  conn' = [conn EXCEPT ![s] =
           IF ~@.here THEN [@ EXCEPT !.phase = "left"]
           ELSE IF @.media THEN Flowing(c) ELSE c]
  /\ UNCHANGED untouched

\* The first bytes: buffered while the admission is in flight, fed after.
Bytes(s) ==
  /\ Jsmpeg(s) /\ conn[s].here /\ ~conn[s].media
  /\ conn' = [conn EXCEPT ![s] = IF @.phase = "held" THEN Flowing(@) ELSE [@ EXCEPT !.media = TRUE]]
  /\ UNCHANGED untouched

\* setMediaInfo commits; it is not guarded by the record's state.
InfoSet(s) ==
  /\ Jsmpeg(s) /\ conn[s].going = "info"
  /\ conn' = [conn EXCEPT ![s].going = "transition"]
  /\ UNCHANGED untouched

\* The POST ends or closes.
PostCloses(s) ==
  /\ Jsmpeg(s) /\ conn[s].here
  /\ conn' = [conn EXCEPT ![s] = IF @.phase = "held" THEN Ended(@) ELSE [@ EXCEPT !.here = FALSE]]
  /\ UNCHANGED untouched

\* A viewer's WebSocket (handleUpgrade) or a restream's tap (handleTap) joins a
\* channel of the map, and goes.
Watch(s) ==
  /\ Jsmpeg(s) /\ conn[s].phase = "held" /\ ~conn[s].watched
  /\ conn' = [conn EXCEPT ![s].watched = TRUE]
  /\ UNCHANGED untouched

Unwatch(s) ==
  /\ Jsmpeg(s) /\ conn[s].watched
  /\ conn' = [conn EXCEPT ![s].watched = FALSE]
  /\ UNCHANGED untouched

JsmpegStep(s) == InfoSet(s) \/ Bytes(s) \/ PostCloses(s) \/ Watch(s) \/ Unwatch(s)

=============================================================================
