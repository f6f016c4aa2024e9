---------------------------- MODULE RunnerSystem ----------------------------
(***************************************************************************)
(* The runners of one output inside their worker: the output's row, the    *)
(* runners map and the poll that reads them (workers/restream-worker.js),  *)
(* and the owner who asks for the output and takes that back.  Here a poll *)
(* of the row is one step; RestreamWorker has its awaits.                  *)
(***************************************************************************)
EXTENDS OutputRunner

CONSTANT MaxRequests   \* bound: starts and stops asked for, ends of the session

ASSUME RequestAssumption == MaxRequests \in Nat

VARIABLES row,      \* the output's row, as far as it is this worker's
          current,  \* the runner in the runners map
          worker,   \* the worker: up, past its drain deadline, or gone
          requests

vars == <<running, row, current, worker, requests>>
world == <<source, sdp, cooling, trouble>>

TypeOK ==
  /\ RunnerTypeOK
  /\ row \in [state : {"pending"} \cup State, desired : {"run", "stop"}]
  /\ current \in Runner \cup {Nobody}
  /\ worker \in {"up", "handed", "gone"}
  /\ requests \in 0..MaxRequests

Init ==
  /\ RunnerInit
  /\ row = [state |-> "pending", desired |-> "run"]
  /\ current = Nobody /\ worker = "up" /\ requests = 0

Open == row.state \in {"pending", "starting", "live", "error"}
wanted == Open /\ row.desired = "run"
Born(r) == runner[r].at # "unborn"

-----------------------------------------------------------------------------
(* A poll                                                                  *)

\* Mutant of PollStop: the runner leaves the map and goes on.
PollForget ==
  /\ worker = "up" /\ current # Nobody /\ ~wanted
  /\ current' = Nobody
  /\ UNCHANGED <<running, row, worker, requests>>

\* The row is not to run, or is not open any more: its runner stops.
PollStop ==
  /\ worker = "up" /\ current # Nobody /\ ~wanted
  /\ Becomes(current, stop(runner[current]))
  /\ current' = Nobody
  /\ UNCHANGED <<world, row, worker, requests>>

\* It is not to run and has no runner: the poll writes that itself.
PollStopped ==
  /\ worker = "up" /\ current = Nobody /\ Open /\ row.desired = "stop"
  /\ row' = [row EXCEPT !.state = "stopped"]
  /\ UNCHANGED <<running, current, worker, requests>>

\* A runner that ended leaves the map,
PollReap ==
  /\ worker = "up" /\ current # Nobody /\ runner[current].stopped
  /\ current' = Nobody
  /\ UNCHANGED <<running, row, worker, requests>>

\* and while the row is open there is another one.
PollStart ==
  /\ worker = "up" /\ current = Nobody /\ wanted
  /\ \E r \in Runner :
       /\ ~Born(r) /\ \A s \in 1..r - 1 : Born(s)
       /\ runner' = [runner EXCEPT ![r] = constructed]
       /\ current' = r
  /\ UNCHANGED <<world, reports, row, worker, requests>>

Poll == PollStop \/ PollStopped \/ PollReap \/ PollStart

-----------------------------------------------------------------------------
(* Reports, requests and the end of the worker                             *)

\* A report lands if the output is still this worker's; reports commit in any
\* order, or fail and are logged.
Commit ==
  /\ worker # "gone"
  /\ \E r \in reports :
       /\ reports' = reports \ {r}
       /\ \/ Calm /\ row' = [row EXCEPT !.state = IF worker = "up" THEN r.to ELSE @]
          \/ Trouble /\ UNCHANGED row
  /\ UNCHANGED <<source, runner, sdp, cooling, current, worker, requests>>

Ask(to) ==
  /\ requests < MaxRequests /\ requests' = requests + 1
  /\ row' = to /\ row' # row
  /\ UNCHANGED <<running, current, worker>>

\* The owner, or the end of the session, asks the output to stop;
RequestStop == Ask([row EXCEPT !.desired = "stop"]) /\ Open

\* the owner starts it: one that ended is assigned anew, here to the same worker.
RequestStart == Ask([state |-> IF Open THEN row.state ELSE "pending", desired |-> "run"])

\* The drain deadline: the runner is told to stop without a word.
HandOver ==
  /\ worker = "up"
  /\ worker' = "handed" /\ current' = Nobody
  /\ IF current = Nobody THEN UNCHANGED runner
     ELSE LET R == runner[current] IN
          Step(current, [over(clearTimers(ended(R))) EXCEPT
                           !.signalled = IF R.proc = "none" THEN @ ELSE "term"])
  /\ UNCHANGED <<world, reports, row, requests>>

\* The process is gone, and with it all that waited and the SIGKILL timers; what
\* is still in the runners map is killed on the way (process.on('exit')).
Gone(last) ==
  /\ worker' = "gone" /\ current' = Nobody /\ reports' = {}
  /\ runner' = [r \in Runner |-> [unborn EXCEPT
       !.at = "no", !.stopped = TRUE,
       !.signalled = IF runner[r].proc # "none" THEN last
                     ELSE IF runner[r].signalled = "kill" THEN "term"
                     ELSE runner[r].signalled]]

\* onLost stops the runners and the process exits; the end of a drain finds none.
Exits ==
  /\ worker # "gone"
  /\ Gone("term")
  /\ Calm /\ UNCHANGED <<source, sdp, cooling, row, requests>>

\* markDestinationFailure fails below an exit of ffmpeg: nobody handles the
\* rejection, and it takes the process down.
MarkCrashes ==
  /\ worker # "gone"
  /\ \E r \in Runner : runner[r].marking = "exit"
  /\ Trouble /\ Gone("kill")
  /\ UNCHANGED <<source, sdp, cooling, row, requests>>

Outside == Commit \/ RequestStop \/ RequestStart \/ HandOver \/ Exits \/ MarkCrashes

Inside(r) ==
  /\ worker # "gone"
  /\ Starting(r) \/ Process(r) \/ Ending(r)
  /\ UNCHANGED <<row, current, worker, requests>>

Dies(r) == Killed(r) /\ UNCHANGED <<row, current, worker, requests>>

Next == Poll \/ Outside \/ \E r \in Runner : Inside(r) \/ Dies(r)

-----------------------------------------------------------------------------
(* What may be counted on: timers fire, calls are answered or time out,    *)
(* and SIGKILL ends a process.  Nothing else ffmpeg does is counted on,    *)
(* not even that it ends on a SIGTERM.                                     *)

Answered(r) == worker # "gone" /\ UNCHANGED <<row, current, worker, requests>>
Fairness ==
  /\ WF_vars(Poll) /\ WF_vars(Commit)
  /\ \A r \in Runner :
       /\ WF_vars(Answered(r) /\ (Starting(r) \/ AckTimeout(r) \/ ClearedCooldown(r) \/ Ending(r)))
       /\ WF_vars(runner[r].signalled = "kill" /\ Dies(r))

Spec == Init /\ [][Next]_vars
FairSpec == Spec /\ Fairness

-----------------------------------------------------------------------------
(* Properties                                                              *)

\* No push is forgotten: an ffmpeg nobody told to end is that of the one runner in
\* the runners map, so there is at most one.  Any other belongs to a runner that was
\* stopped, and while the worker takes new work the SIGKILL timer is behind its
\* SIGTERM: it may push beside the next one until then, and no longer.  However a
\* start, a process and the timers interleave with a stop (output-runner.js:87, 95,
\* 208, 290-296; restream-worker.js:139-140 says what two pushes cost).
NoForgottenPush == \A r \in Runner :
  /\ runner[r].proc # "none" => r = current /\ ~runner[r].stopped
  /\ runner[r].signalled # "no" => runner[r].stopped
  /\ runner[r].signalled = "term" => worker # "up"

\* Each runner makes the push it promises, up to the end it is told: at most maxRestarts + 1 connections
\* between two stable runs, live only while connected, and none after the end
\* (output-runner.js:198-205, 207-266).
push == [r \in Runner |->
  IF runner[r].stopped THEN "over"
  ELSE IF runner[r].proc = "none" THEN "waiting"
  ELSE IF runner[r].live THEN "live" ELSE "connected"]
Promise == INSTANCE PushLifecycle WITH
  Pusher <- Runner, Tries <- MaxRestarts + 1, tries <- [r \in Runner |-> runner[r].pushes]
PushSpec == Promise!PushSpec

\* A push that never becomes live ends: no answer, crashes and refusals all use up
\* the restarts (output-runner.js:198-204, 248-266).  The one exception is an ffmpeg
\* that outlives the acknowledgement timer's SIGTERM, which nothing follows (203):
\* then the runner keeps waiting for it, and only a stop helps.
BreakerEnds == \A r \in Runner :
  \/ Born(r) ~> (runner[r].stopped \/ (runner[r].proc # "none" /\ runner[r].live))
  \/ <>[](runner[r].proc = "ending")

\* A stop ends in a stopped row and without any ffmpeg, whatever the runner was
\* doing and whichever of its reports were still to commit, unless the output is
\* wanted again or handed over (restream-worker.js:56-58, output-runner.js:285-300).
StopEnds ==
  row.desired = "stop" ~>
    (\/ ~Open /\ \A r \in Runner : runner[r].proc = "none" /\ runner[r].signalled = "no"
     \/ row.desired = "run" \/ worker # "up")
=============================================================================
