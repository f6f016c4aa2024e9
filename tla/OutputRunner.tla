---------------------------- MODULE OutputRunner ----------------------------
(***************************************************************************)
(* workers/restream/output-runner.js: the runners of one output, one after *)
(* the other.  Each pushes with one ffmpeg process at a time, restarts it  *)
(* when it exits and gives up when the circuit breaker says so.  One       *)
(* action per stretch of code between two awaits, per timer and per event  *)
(* of the process.  How long a delay is, and the text of a message, are    *)
(* left out.                                                               *)
(***************************************************************************)
EXTENDS Integers, FiniteSets

CONSTANTS MaxRestarts,       \* config.outputs.maxRestarts
          RapidCrashGiveUp,  \* config.outputs.rapidCrashGiveUp
          MaxRunners,        \* bound: runners ever made for the output
          MaxReports,        \* bound: reports in flight; a stop may add one more
          MaxTrouble         \* bound: failed calls

ASSUME RunnerAssumption ==
  /\ MaxRestarts \in Nat /\ RapidCrashGiveUp \in Nat \ {0}
  /\ MaxRunners \in Nat \ {0} /\ MaxReports \in Nat /\ MaxTrouble \in Nat

Runner == 1..MaxRunners   \* in the order they are made
Nobody == 0

VARIABLES source,   \* what is pushed: "webrtc" needs an egress and an SDP file
          runner,   \* Runner -> its fields
          sdp,      \* whose SDP the file of the output holds: its path is the output's
          reports,  \* what runners reported and has not committed
          cooling,  \* the destination cools down
          trouble

running == <<source, runner, sdp, reports, cooling, trouble>>

\* at        where its start() waits
\* proc      its ffmpeg: no progress yet, some, or told to end for want of it
\* signalled an ffmpeg it stopped: SIGTERM alone, or with the SIGKILL timer
\* live      liveThisRun;  ever  everLive;  attempts  restartAttempts;  rapid  rapidCrashCount
\* ack, stable, restart      timers
\* clearing  confirmLive waits for the cooldown to be cleared, for this process or an old one
\* marking   fail() waits for the cooldown to be set; called from an exit or from start()
\* handle    egressHandle, with sdpPath;  cleaning  cleanupEgress waits for the DELETE
\* pushes    processes started since the runner began or was last stable
Fields == [at : {"unborn", "no", "lookup", "resolve", "egress"}, stopped : BOOLEAN,
           proc : {"none", "silent", "talking", "ending"}, signalled : {"no", "term", "kill"},
           live : BOOLEAN, ever : BOOLEAN, attempts : 0..MaxRestarts, rapid : 0..MaxRestarts,
           ack : BOOLEAN, stable : BOOLEAN, restart : BOOLEAN,
           clearing : SUBSET {"this", "old"}, marking : {"no", "exit", "start"},
           handle : BOOLEAN, cleaning : BOOLEAN, pushes : 0..MaxRestarts + 1]
State == {"starting", "live", "error", "failed", "stopped"}

RunnerTypeOK ==
  /\ source \in {"pull", "webrtc"}
  /\ runner \in [Runner -> Fields]
  /\ sdp \in Runner \cup {Nobody}
  /\ reports \subseteq [by : Runner, to : State]
  /\ cooling \in BOOLEAN
  /\ trouble \in 0..MaxTrouble

unborn == [at |-> "unborn", stopped |-> FALSE, proc |-> "none", signalled |-> "no",
           live |-> FALSE, ever |-> FALSE, attempts |-> 0, rapid |-> 0,
           ack |-> FALSE, stable |-> FALSE, restart |-> FALSE, clearing |-> {},
           marking |-> "no", handle |-> FALSE, cleaning |-> FALSE, pushes |-> 0]
constructed == [unborn EXCEPT !.at = "lookup"]

RunnerInit ==
  /\ source \in {"pull", "webrtc"}
  /\ runner = [r \in Runner |-> unborn]
  /\ sdp = Nobody /\ reports = {} /\ cooling = FALSE /\ trouble = 0

Calm == UNCHANGED trouble
Trouble == trouble < MaxTrouble /\ trouble' = trouble + 1
Room == Cardinality(reports) < MaxReports

\* What the worker asks the store about a destination: it rejects (a secret does
\* not open), finds none that is to be used (gone, disabled or held), or one.
destinationForWorker == {"rejected", "unusable", "usable"}
\* How often it failed, and so for how long it cools down, is left out.
markDestinationFailure == cooling' = TRUE
clearDestinationCooldown == cooling' = FALSE

\* What a call leaves of the runner, and the states it reports.
Outcome(R, say) == [left |-> R, say |-> say]
Becomes(r, out) ==
  /\ runner' = [runner EXCEPT ![r] = out.left]
  /\ reports' = reports \cup [by : {r}, to : out.say]

-----------------------------------------------------------------------------
(* The circuit breaker                                                     *)

clearTimers(R) == [R EXCEPT !.ack = FALSE, !.stable = FALSE, !.restart = FALSE]

\* stopped is set.  A stopped runner reads none of its counts again: they are dropped.
over(R) == [R EXCEPT !.stopped = TRUE, !.live = FALSE, !.ever = FALSE, !.attempts = 0,
                     !.rapid = 0, !.pushes = 0]

fail(R, cooldown, from) ==
  IF R.stopped THEN Outcome(R, {})
  ELSE LET quiet == over(clearTimers(R)) IN
       IF cooldown THEN Outcome([quiet EXCEPT !.marking = from], {})
       ELSE Outcome([quiet EXCEPT !.cleaning = R.handle], {"failed"})

\* fast: the process ran for less than rapidCrashMs.
rapidCrashes(R, fast) == IF ~R.live /\ fast THEN R.rapid + 1 ELSE 0

scheduleRestart(R, fast, from) ==
  LET rapid == rapidCrashes(R, fast) IN
  IF R.stopped THEN Outcome(R, {})
  ELSE IF R.attempts >= MaxRestarts THEN fail(R, ~R.ever, from)
  ELSE IF rapid >= RapidCrashGiveUp /\ ~R.ever THEN fail(R, TRUE, from)
  ELSE Outcome([R EXCEPT !.rapid = rapid, !.attempts = @ + 1, !.restart = TRUE], {})

\* What is left of the process's timers does nothing any more.
ended(R) == [R EXCEPT !.proc = "none", !.ack = FALSE, !.stable = FALSE,
                      !.clearing = IF @ = {} THEN {} ELSE {"old"}]

\* A clean exit means that the source ended.
onExit(R, clean, fast, from) ==
  IF R.stopped THEN Outcome(ended(R), {})
  ELSE IF clean THEN Outcome(over(ended(R)), {"stopped"})
  ELSE LET out == scheduleRestart(ended(R), fast, from)
       IN  Outcome(out.left, out.say \cup {"error"})

stop(R) ==
  IF R.stopped /\ R.proc = "none" THEN Outcome(R, {})
  ELSE Outcome([over(clearTimers(ended(R))) EXCEPT
                  !.cleaning = R.handle,
                  !.signalled = IF R.proc = "none" THEN @ ELSE "kill"], {"stopped"})

-----------------------------------------------------------------------------
(* start()                                                                 *)

Waits(r, at) == runner[r].at = at
returned(R) == [R EXCEPT !.at = "no"]

\* What start() does with a problem: no cooldown, and a rejection of what it
\* awaits ends up in its own catch.
Refuses(r) == Becomes(r, fail(returned(runner[r]), FALSE, "start"))

\* spawn() found a process, or failed as if the process had exited.
spawned(R) == [R EXCEPT !.proc = "silent", !.live = FALSE, !.ack = TRUE, !.pushes = @ + 1]
Spawns(r, R) ==
  \/ Becomes(r, Outcome(spawned(R), {"starting"}))
  \/ \E fast \in BOOLEAN : Becomes(r, onExit(R, FALSE, fast, "exit"))

Restart(r) ==
  /\ runner[r].restart
  /\ runner' = [runner EXCEPT ![r].restart = FALSE, ![r].at = "lookup"]
  /\ Calm /\ UNCHANGED <<source, sdp, reports, cooling>>

\* A usable destination may still have a URL that is refused, or a host to resolve.
LookedUp(r) ==
  /\ Waits(r, "lookup") /\ Room
  /\ \E found \in destinationForWorker :
       \/ found # "unusable" /\ Refuses(r)
       \/ found = "unusable" /\ Becomes(r, stop(returned(runner[r])))
       \/ found = "usable" /\ Becomes(r, Outcome([runner[r] EXCEPT !.at = "resolve"], {}))
  /\ Calm /\ UNCHANGED <<source, sdp, cooling>>

\* Mutant of Resolved: it is not asked again whether the runner was stopped.
ResolvedOnce(r) ==
  /\ Waits(r, "resolve") /\ Room
  /\ LET R == returned(runner[r]) IN
     \/ Refuses(r)
     \/ source = "webrtc" /\ ~R.handle /\ Becomes(r, Outcome([R EXCEPT !.at = "egress"], {}))
     \/ (source = "pull" \/ R.handle) /\ Spawns(r, R)
  /\ Calm /\ UNCHANGED <<source, sdp, cooling>>

\* checkResolvedHost: the address is refused, or a source is there or is asked for.
Resolved(r) ==
  /\ Waits(r, "resolve") /\ Room
  /\ LET R == returned(runner[r]) IN
     IF R.stopped THEN Becomes(r, Outcome(R, {}))
     ELSE \/ Refuses(r)
          \/ source = "webrtc" /\ ~R.handle /\ Becomes(r, Outcome([R EXCEPT !.at = "egress"], {}))
          \/ (source = "pull" \/ R.handle) /\ Spawns(r, R)
  /\ Calm /\ UNCHANGED <<source, sdp, cooling>>

\* prepareWebrtc: the egress is there, and its SDP written, or not yet.
Prepared(r) ==
  /\ Waits(r, "egress") /\ Room
  /\ LET R == returned(runner[r])
         held == [R EXCEPT !.handle = TRUE] IN
     \/ sdp' = r /\ IF R.stopped THEN Becomes(r, Outcome(held, {})) ELSE Spawns(r, held)
     \/ UNCHANGED sdp /\ Becomes(r, scheduleRestart(R, TRUE, "start"))
  /\ Calm /\ UNCHANGED <<source, cooling>>

Starting(r) == Restart(r) \/ LookedUp(r) \/ Resolved(r) \/ Prepared(r)

-----------------------------------------------------------------------------
(* The process                                                             *)

\* confirmLive, up to its await.
confirmedLive(R) == [R EXCEPT !.live = TRUE, !.ever = TRUE, !.rapid = 0,
                              !.clearing = @ \cup {"this"}]
Step(r, R) == runner' = [runner EXCEPT ![r] = R]

\* A progress line; the first with a frame in it confirms that the push is live.
Progress(r) ==
  /\ runner[r].proc \in {"silent", "talking", "ending"}
  /\ LET R == [runner[r] EXCEPT !.proc = IF @ = "silent" THEN "talking" ELSE @] IN
     \/ Step(r, R)
     \/ ~R.live /\ Step(r, confirmedLive(R))
  /\ Calm /\ UNCHANGED <<source, sdp, reports, cooling>>

\* Mutant of AckTimeout: the silence is only noted.
AckTimeoutNoted(r) ==
  /\ runner[r].ack
  /\ LET R == [runner[r] EXCEPT !.ack = FALSE] IN
     IF R.live \/ R.proc = "silent" THEN Step(r, R) ELSE Step(r, confirmedLive(R))
  /\ Calm /\ UNCHANGED <<source, sdp, reports, cooling>>

\* No frame in liveAckTimeoutMs: any progress will do, and silence ends the process.
AckTimeout(r) ==
  /\ runner[r].ack
  /\ LET R == [runner[r] EXCEPT !.ack = FALSE] IN
     Step(r, IF R.live THEN R
             ELSE IF R.proc = "talking" THEN confirmedLive(R)
             ELSE [R EXCEPT !.proc = "ending"])
  /\ Calm /\ UNCHANGED <<source, sdp, reports, cooling>>

\* The cooldown is cleared, or that fails; only then live is reported, whatever
\* the runner has become.
ClearedCooldown(r) ==
  /\ Room
  /\ \/ Calm /\ clearDestinationCooldown
     \/ Trouble /\ UNCHANGED cooling
  /\ \E which \in runner[r].clearing :
       Becomes(r, Outcome([runner[r] EXCEPT !.clearing = @ \ {which},
                             !.stable = @ \/ which = "this"], {"live"}))
  /\ UNCHANGED <<source, sdp>>

\* Mutant of Stable: the timer of a process that is gone counts.
StableAnyway(r) ==
  /\ runner[r].live /\ runner[r].restart
  /\ Step(r, [runner[r] EXCEPT !.stable = FALSE, !.attempts = 0, !.rapid = 0, !.pushes = 1])
  /\ Calm /\ UNCHANGED <<source, sdp, reports, cooling>>

\* Live for stableMs: the circuit breaker starts over.
Stable(r) ==
  /\ runner[r].stable
  /\ Step(r, [runner[r] EXCEPT !.stable = FALSE, !.attempts = 0, !.rapid = 0, !.pushes = 1])
  /\ Calm /\ UNCHANGED <<source, sdp, reports, cooling>>

Exit(r) ==
  /\ runner[r].proc # "none" /\ Room
  /\ \E clean \in BOOLEAN, fast \in BOOLEAN : Becomes(r, onExit(runner[r], clean, fast, "exit"))
  /\ Calm /\ UNCHANGED <<source, sdp, cooling>>

\* A process that was stopped ends, at the latest when it is killed.
Killed(r) ==
  /\ runner[r].signalled # "no"
  /\ Step(r, [runner[r] EXCEPT !.signalled = "no"])
  /\ Calm /\ UNCHANGED <<source, sdp, reports, cooling>>

Process(r) == Progress(r) \/ AckTimeout(r) \/ ClearedCooldown(r) \/ Stable(r) \/ Exit(r)

-----------------------------------------------------------------------------
(* fail() and cleanupEgress(), after their awaits                          *)

MarkedFailure(r) ==
  /\ runner[r].marking # "no" /\ Room
  /\ markDestinationFailure
  /\ Becomes(r, Outcome([runner[r] EXCEPT !.marking = "no", !.cleaning = runner[r].handle],
                        {"failed"}))
  /\ Calm /\ UNCHANGED <<source, sdp>>

\* The marking fails below start(): its catch calls fail() again, which
\* finds the runner stopped, and nothing is reported.
MarkFails(r) ==
  /\ runner[r].marking = "start" /\ Trouble
  /\ Step(r, [runner[r] EXCEPT !.marking = "no"])
  /\ UNCHANGED <<source, sdp, reports, cooling>>

\* The DELETE was answered, or not: the file at the output's path goes.
CleanedUp(r) ==
  /\ runner[r].cleaning
  /\ Step(r, [runner[r] EXCEPT !.cleaning = FALSE, !.handle = FALSE])
  /\ sdp' = Nobody
  /\ Calm /\ UNCHANGED <<source, reports, cooling>>

Ending(r) == MarkedFailure(r) \/ MarkFails(r) \/ CleanedUp(r)

=============================================================================
