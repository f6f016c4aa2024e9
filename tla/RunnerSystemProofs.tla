------------------------- MODULE RunnerSystemProofs -------------------------
(***************************************************************************)
(* Proofs about RunnerSystem, for any limits and any number of runners,    *)
(* reports, requests and failed calls: every variable stays well formed,   *)
(* nobody pushes but the runner the worker knows, and every runner makes   *)
(* the push that PushLifecycle promises.                                   *)
(*                                                                         *)
(* Almost every step changes one runner r from R to S.  Sane says what is  *)
(* always true of one runner, and Follows what such a change may be; that  *)
(* the changes the code makes follow is shown operator by operator, and    *)
(* the theorems need nothing else of them.                                 *)
(***************************************************************************)
EXTENDS RunnerSystem, TLAPS

USE RunnerAssumption, RequestAssumption DEF Runner, Nobody

-----------------------------------------------------------------------------
(* One runner                                                              *)

\* What a process, its timers and the counts have to do with each other: a
\* push is counted at most once more than a restart, and only while its
\* process runs.
Sane(R) ==
  /\ R.proc = "none" => ~R.ack /\ ~R.stable /\ "this" \notin R.clearing
  /\ R.proc # "none" => R.at = "no" /\ ~R.restart
  /\ R.restart => R.at = "no"
  /\ R.stopped => R.proc = "none" /\ ~R.restart /\ R.pushes = 0
  /\ R.stable \/ "this" \in R.clearing => R.live
  /\ R.rapid <= R.attempts
  /\ R.pushes <= R.attempts + (IF R.proc = "none" THEN 0 ELSE 1)
  /\ R.at = "unborn" => ~R.stopped /\ R.pushes = 0
  /\ R.signalled # "no" => R.stopped

Seen(R) == IF R.stopped THEN "over"
           ELSE IF R.proc = "none" THEN "waiting"
           ELSE IF R.live THEN "live" ELSE "connected"

\* What the platform sees of a change from R to S.
Moves(R, S) ==
  \/ S.stopped
  \/ Seen(S) = Seen(R) /\ S.pushes = R.pushes
  \/ Seen(R) = "waiting" /\ Seen(S) = "connected" /\ R.pushes <= MaxRestarts /\ S.pushes = R.pushes + 1
  \/ Seen(R) = "connected" /\ Seen(S) = "live" /\ S.pushes = R.pushes
  \/ Seen(R) = "live" /\ Seen(S) = "live" /\ S.pushes = 1
  \/ Seen(R) \in {"connected", "live"} /\ Seen(S) = "waiting" /\ S.pushes = R.pushes

Follows(R, S) ==
  /\ S \in Fields /\ Sane(S)
  /\ S.at = "unborn" <=> R.at = "unborn"
  /\ R.stopped => S.stopped
  /\ S.signalled = "term" => R.signalled = "term"
  /\ Moves(R, S)

\* A runner between two processes, before its restart is scheduled.
Quiet(R) ==
  /\ R \in Fields /\ R.at = "no" /\ R.proc = "none" /\ ~R.restart
  /\ ~R.ack /\ ~R.stable /\ "this" \notin R.clearing
  /\ R.stopped => R.pushes = 0
  /\ R.rapid <= R.attempts /\ R.pushes <= R.attempts + 1
  /\ R.signalled # "no" => R.stopped

\* What a call that leaves no process makes of it.
Settles(R, out) ==
  /\ out.left \in Fields /\ Sane(out.left)
  /\ out.left.at = "no" /\ out.left.proc = "none"
  /\ R.stopped => out.left.stopped
  /\ out.left.signalled = R.signalled
  /\ out.left.stopped \/ out.left.pushes = R.pushes
  /\ out.say \subseteq State

LEMMA Unborn == unborn \in Fields /\ Sane(unborn) /\ ~unborn.stopped /\ unborn.proc = "none"
                /\ unborn.pushes = 0 /\ unborn.at = "unborn"
                /\ unborn.signalled = "no"
  BY DEF unborn, Fields, Sane

LEMMA Constructed ==
  /\ constructed \in Fields /\ Sane(constructed) /\ ~constructed.stopped
  /\ constructed.proc = "none" /\ constructed.pushes = 0 /\ constructed.at = "lookup"
  /\ constructed.signalled = "no"
<1>1. constructed = [unborn EXCEPT !.at = "lookup"]
  BY DEF constructed
<1>2. /\ unborn.attempts = 0 /\ unborn.rapid = 0 /\ ~unborn.ack /\ ~unborn.stable
      /\ ~unborn.restart /\ unborn.clearing = {}
  BY DEF unborn
<1> QED BY <1>1, <1>2, Unborn DEF Fields, Sane

LEMMA ClearTimersType ==
  ASSUME NEW R \in Fields
  PROVE  /\ clearTimers(R) \in Fields
         /\ ~clearTimers(R).ack /\ ~clearTimers(R).stable /\ ~clearTimers(R).restart
         /\ clearTimers(R).at = R.at /\ clearTimers(R).proc = R.proc
         /\ clearTimers(R).clearing = R.clearing /\ clearTimers(R).handle = R.handle
         /\ clearTimers(R).cleaning = R.cleaning /\ clearTimers(R).signalled = R.signalled
  BY DEF clearTimers, Fields

LEMMA OverType ==
  ASSUME NEW R \in Fields
  PROVE  /\ over(R) \in Fields /\ over(R).stopped /\ ~over(R).live
         /\ over(R).attempts = 0 /\ over(R).rapid = 0 /\ over(R).pushes = 0
         /\ over(R).at = R.at /\ over(R).proc = R.proc
         /\ over(R).ack = R.ack /\ over(R).stable = R.stable /\ over(R).restart = R.restart
         /\ over(R).clearing = R.clearing /\ over(R).handle = R.handle
         /\ over(R).signalled = R.signalled
<1> DEFINE S == [R EXCEPT !.stopped = TRUE, !.live = FALSE, !.ever = FALSE]
           T == [S EXCEPT !.attempts = 0, !.rapid = 0]
<1>1. S \in Fields /\ S.stopped /\ ~S.live /\ ~S.ever
  BY DEF Fields
<1>2. /\ S.at = R.at /\ S.proc = R.proc /\ S.ack = R.ack /\ S.stable = R.stable
      /\ S.restart = R.restart /\ S.clearing = R.clearing /\ S.handle = R.handle
      /\ S.signalled = R.signalled
  BY DEF Fields
<1>3. over(R) = [T EXCEPT !.pushes = 0]
  BY DEF over
<1> HIDE DEF S
<1>4. T \in Fields
  <2>1. [S EXCEPT !.attempts = 0] \in Fields
    BY <1>1 DEF Fields
  <2> QED BY <2>1 DEF Fields
<1>5. /\ T.attempts = 0 /\ T.rapid = 0 /\ T.stopped /\ ~T.live /\ T.at = S.at /\ T.proc = S.proc
      /\ T.ack = S.ack /\ T.stable = S.stable /\ T.restart = S.restart
      /\ T.clearing = S.clearing /\ T.handle = S.handle /\ T.signalled = S.signalled
  BY <1>1 DEF Fields
<1> HIDE DEF T
<1>6. [T EXCEPT !.pushes = 0] \in Fields
  BY <1>4 DEF Fields
<1> QED BY <1>2, <1>3, <1>4, <1>5, <1>6 DEF Fields

LEMMA EndedType ==
  ASSUME NEW R \in Fields
  PROVE  /\ ended(R) \in Fields /\ ended(R).proc = "none"
         /\ ~ended(R).ack /\ ~ended(R).stable /\ "this" \notin ended(R).clearing
         /\ ended(R).at = R.at /\ ended(R).restart = R.restart /\ ended(R).stopped = R.stopped
         /\ ended(R).attempts = R.attempts /\ ended(R).rapid = R.rapid
         /\ ended(R).pushes = R.pushes /\ ended(R).handle = R.handle
         /\ ended(R).live = R.live /\ ended(R).signalled = R.signalled
  BY DEF ended, Fields

LEMMA OverSettles ==
  ASSUME NEW R, Quiet(R), R.stopped
  PROVE  Settles(R, Outcome(R, {}))
<1>1. R \in Fields /\ Sane(R)
  BY DEF Quiet, Sane, Fields
<1>2. Outcome(R, {}).left = R /\ Outcome(R, {}).say = {}
  BY DEF Outcome
<1> QED BY <1>1, <1>2 DEF Settles, Quiet

LEMMA FailSettles ==
  ASSUME NEW R, Quiet(R), NEW cooldown \in BOOLEAN, NEW from \in {"exit", "start"}
  PROVE  Settles(R, fail(R, cooldown, from))
<1>1. CASE R.stopped
  <2>1. fail(R, cooldown, from) = Outcome(R, {})
    BY <1>1 DEF fail
  <2> QED BY <1>1, <2>1, OverSettles
<1>2. CASE ~R.stopped
  <2> DEFINE quiet == over(clearTimers(R))
  <2>1. /\ quiet \in Fields /\ quiet.stopped /\ quiet.proc = "none" /\ quiet.at = "no"
        /\ ~quiet.ack /\ ~quiet.stable /\ ~quiet.restart /\ "this" \notin quiet.clearing
        /\ quiet.attempts = 0 /\ quiet.rapid = 0 /\ quiet.pushes = 0
        /\ quiet.signalled = R.signalled
    <3>1. R \in Fields
      BY DEF Quiet
    <3>2. clearTimers(R) \in Fields
      BY <3>1, ClearTimersType
    <3> QED BY <3>1, <3>2, ClearTimersType, OverType DEF Quiet
  <2> HIDE DEF quiet
  <2>2. R.handle \in BOOLEAN
    BY DEF Quiet, Fields
  <2>3. [quiet EXCEPT !.marking = from] \in Fields /\ Sane([quiet EXCEPT !.marking = from])
    BY <2>1 DEF Fields, Sane
  <2>4. [quiet EXCEPT !.cleaning = R.handle] \in Fields /\ Sane([quiet EXCEPT !.cleaning = R.handle])
    BY <2>1, <2>2 DEF Fields, Sane
  <2>5. fail(R, cooldown, from) = IF cooldown THEN Outcome([quiet EXCEPT !.marking = from], {})
                                  ELSE Outcome([quiet EXCEPT !.cleaning = R.handle], {"failed"})
    BY <1>2 DEF fail, quiet
  <2> QED BY <1>2, <2>1, <2>3, <2>4, <2>5 DEF Settles, Outcome, State, Fields
<1> QED BY <1>1, <1>2

LEMMA RestartSettles ==
  ASSUME NEW R, Quiet(R), NEW fast \in BOOLEAN, NEW from \in {"exit", "start"}
  PROVE  Settles(R, scheduleRestart(R, fast, from))
<1> DEFINE rapid == rapidCrashes(R, fast)
           again == [R EXCEPT !.rapid = rapid, !.attempts = @ + 1, !.restart = TRUE]
<1>1. R.attempts \in 0..MaxRestarts /\ R.rapid \in 0..MaxRestarts /\ R.ever \in BOOLEAN
  BY DEF Quiet, Fields
<1>2. CASE R.stopped
  <2>1. scheduleRestart(R, fast, from) = Outcome(R, {})
    BY <1>2 DEF scheduleRestart
  <2> QED BY <1>2, <2>1, OverSettles
<1>3. CASE ~R.stopped /\ R.attempts < MaxRestarts
  <2>1. rapid \in 0..MaxRestarts /\ rapid <= R.attempts + 1
    BY <1>1, <1>3 DEF rapidCrashes, Quiet
  <2>2. again \in Fields /\ Sane(again)
    <3> HIDE DEF rapid
    <3>1. R \in Fields /\ R.attempts + 1 \in 0..MaxRestarts
      BY <1>1, <1>3 DEF Quiet
    <3>2. [R EXCEPT !.rapid = rapid] \in Fields
      BY <2>1, <3>1 DEF Fields
    <3>3. [[R EXCEPT !.rapid = rapid] EXCEPT !.attempts = R.attempts + 1] \in Fields
      BY <3>1, <3>2 DEF Fields
    <3>4. again \in Fields
      BY <3>3 DEF Fields
    <3>5. /\ again.rapid = rapid /\ again.attempts = R.attempts + 1
          /\ again.at = "no" /\ again.proc = "none" /\ again.pushes = R.pushes
          /\ ~again.ack /\ ~again.stable /\ "this" \notin again.clearing
          /\ again.stopped = R.stopped /\ again.signalled = R.signalled
      BY DEF Quiet, Fields
    <3> QED BY <1>1, <1>3, <2>1, <3>4, <3>5 DEF Quiet, Sane
  <2>3. /\ again.at = "no" /\ again.proc = "none" /\ again.pushes = R.pushes
        /\ again.signalled = R.signalled
    BY DEF Quiet, Fields
  <2>4. \/ scheduleRestart(R, fast, from) = fail(R, TRUE, from)
        \/ scheduleRestart(R, fast, from) = Outcome(again, {})
    <3>1. ~(R.attempts >= MaxRestarts)
      BY <1>1, <1>3
    <3> QED BY <1>3, <3>1, Zenon DEF scheduleRestart
  <2>5. Settles(R, Outcome(again, {}))
    <3> HIDE DEF again
    <3> QED BY <1>3, <2>2, <2>3 DEF Settles, Outcome
  <2> QED BY <2>4, <2>5, FailSettles
<1>4. CASE ~R.stopped /\ R.attempts >= MaxRestarts
  <2>1. scheduleRestart(R, fast, from) = fail(R, ~R.ever, from)
    BY <1>4 DEF scheduleRestart
  <2> QED BY <2>1, <1>1, FailSettles
<1> QED BY <1>1, <1>2, <1>3, <1>4

LEMMA ExitSettles ==
  ASSUME NEW R \in Fields, R.at = "no", ~R.restart, R.stopped => R.pushes = 0,
         R.signalled # "no" => R.stopped, R.rapid <= R.attempts, R.pushes <= R.attempts + 1,
         NEW clean \in BOOLEAN, NEW fast \in BOOLEAN, NEW from \in {"exit", "start"}
  PROVE  Settles(R, onExit(R, clean, fast, from))
<1> DEFINE E == ended(R)
<1>1. Quiet(E) /\ E.stopped = R.stopped /\ E.pushes = R.pushes /\ E.signalled = R.signalled
  BY EndedType DEF Quiet
<1> HIDE DEF E
<1>2. CASE R.stopped
  <2>1. onExit(R, clean, fast, from) = Outcome(E, {})
    BY <1>2 DEF onExit, E
  <2>2. Settles(E, Outcome(E, {}))
    BY <1>1, <1>2, OverSettles
  <2> QED BY <1>1, <2>1, <2>2 DEF Settles
<1>3. CASE ~R.stopped /\ clean
  <2>1. onExit(R, clean, fast, from) = Outcome(over(E), {"stopped"})
    BY <1>3 DEF onExit, E
  <2>2. over(E) \in Fields /\ Sane(over(E)) /\ over(E).at = "no" /\ over(E).proc = "none" /\ over(E).stopped
        /\ over(E).signalled = E.signalled
    BY <1>1, OverType DEF Quiet, Sane
  <2> QED BY <1>1, <2>1, <2>2 DEF Settles, Outcome, State
<1>4. CASE ~R.stopped /\ ~clean
  <2> DEFINE out == scheduleRestart(E, fast, from)
  <2>1. onExit(R, clean, fast, from) = Outcome(out.left, out.say \cup {"error"})
    BY <1>4 DEF onExit, E
  <2>2. Settles(E, out)
    BY <1>1, RestartSettles
  <2> HIDE DEF out
  <2> QED BY <1>1, <2>1, <2>2 DEF Settles, Outcome, State
<1> QED BY <1>2, <1>3, <1>4

\* A stop leaves no process, in whatever state it finds the runner.
LEMMA StopFollows ==
  ASSUME NEW R \in Fields, Sane(R), R.at # "unborn"
  PROVE  Follows(R, stop(R).left) /\ stop(R).left.stopped /\ stop(R).say \subseteq State
<1>1. CASE R.stopped /\ R.proc = "none"
  <2>1. stop(R) = Outcome(R, {})
    BY <1>1 DEF stop
  <2> QED BY <1>1, <2>1 DEF Outcome, Follows, Moves
<1>2. CASE ~(R.stopped /\ R.proc = "none")
  <2> DEFINE quiet == over(clearTimers(ended(R)))
             signal == IF R.proc = "none" THEN quiet.signalled ELSE "kill"
             S == [quiet EXCEPT !.cleaning = R.handle, !.signalled = signal]
  <2>1. clearTimers(ended(R)) \in Fields
    BY EndedType, ClearTimersType
  <2>2. /\ quiet \in Fields /\ quiet.stopped /\ quiet.proc = "none" /\ quiet.at = R.at
        /\ ~quiet.ack /\ ~quiet.stable /\ ~quiet.restart /\ "this" \notin quiet.clearing
        /\ quiet.attempts = 0 /\ quiet.rapid = 0 /\ quiet.pushes = 0
        /\ quiet.signalled = R.signalled
    BY <2>1, EndedType, ClearTimersType, OverType
  <2>3. stop(R) = Outcome(S, {"stopped"})
    BY <1>2 DEF stop
  <2> HIDE DEF quiet
  <2>4. signal \in {"no", "term", "kill"} /\ R.handle \in BOOLEAN /\ (signal = "term" => R.signalled = "term")
    BY <2>2 DEF Fields
  <2> HIDE DEF signal
  <2>5. S \in Fields
    <3>1. [quiet EXCEPT !.cleaning = R.handle] \in Fields
      BY <2>2, <2>4 DEF Fields
    <3> QED BY <2>4, <3>1 DEF Fields
  <2>6. /\ S.stopped /\ S.proc = "none" /\ S.at = R.at
        /\ ~S.ack /\ ~S.stable /\ ~S.restart /\ "this" \notin S.clearing
        /\ S.attempts = 0 /\ S.rapid = 0 /\ S.pushes = 0 /\ S.signalled = signal
    BY <2>2 DEF Fields
  <2> HIDE DEF S
  <2>7. Sane(S)
    BY <2>6 DEF Sane
  <2> QED BY <2>3, <2>4, <2>5, <2>6, <2>7 DEF Outcome, Follows, Moves, State
<1> QED BY <1>1, <1>2

-----------------------------------------------------------------------------
(* The steps of one runner                                                 *)

\* Everything that holds of the runners, their reports and what is theirs.
Runners ==
  /\ RunnerTypeOK
  /\ \A r \in Runner : Sane(runner[r])

\* Runner r changes and says something; nobody else does.
Turn(r) ==
  \E S : /\ runner' = [runner EXCEPT ![r] = S]
         /\ Follows(runner[r], S)

LEMMA Called ==
  ASSUME Runners, NEW r \in Runner, NEW R, NEW out, R.at # "unborn", Born(r),
         R.stopped = runner[r].stopped, R.pushes = runner[r].pushes,
         R.signalled = runner[r].signalled, Settles(R, out), Becomes(r, out)
  PROVE  Turn(r) /\ reports' \subseteq [by : Runner, to : State]
<1>1. runner[r] \in Fields /\ Sane(runner[r]) /\ reports \subseteq [by : Runner, to : State]
  BY DEF Runners, RunnerTypeOK
<1>2. Follows(runner[r], out.left)
  BY <1>1 DEF Settles, Follows, Moves, Seen, Born, Sane, Fields
<1>3. runner' = [runner EXCEPT ![r] = out.left] /\ reports' = reports \cup [by : {r}, to : out.say]
  BY DEF Becomes
<1>4. Turn(r)
  BY <1>2, <1>3 DEF Turn
<1>5. [by : {r}, to : out.say] \subseteq [by : Runner, to : State]
  BY DEF Settles
<1> QED BY <1>1, <1>3, <1>4, <1>5

\* start() goes on to R, without a process, and reports nothing.
LEMMA WentOn ==
  ASSUME Runners, NEW r \in Runner, NEW R, R \in Fields, Sane(R), R.at # "unborn", Born(r),
         runner[r].proc = "none", R.proc = "none",
         R.stopped = runner[r].stopped, R.pushes = runner[r].pushes,
         R.signalled = runner[r].signalled, Becomes(r, Outcome(R, {}))
  PROVE  Turn(r) /\ reports' \subseteq [by : Runner, to : State]
<1>1. runner[r] \in Fields /\ Sane(runner[r]) /\ reports \subseteq [by : Runner, to : State]
  BY DEF Runners, RunnerTypeOK
<1>2. Follows(runner[r], R)
  BY <1>1 DEF Follows, Moves, Seen, Born, Fields
<1>3. runner' = [runner EXCEPT ![r] = R] /\ reports' = reports
  BY DEF Becomes, Outcome
<1> QED BY <1>1, <1>2, <1>3 DEF Turn

LEMMA ReturnedQuiet ==
  ASSUME NEW R \in Fields, Sane(R), R.at \notin {"unborn", "no"}
  PROVE  /\ Quiet(returned(R)) /\ Sane(returned(R)) /\ returned(R).pushes = R.pushes
         /\ returned(R).stopped = R.stopped /\ returned(R).handle = R.handle
         /\ returned(R).signalled = R.signalled
  BY DEF returned, Quiet, Sane, Fields

\* A spawn: a process, or what follows an exit at once.
LEMMA SpawnFollows ==
  ASSUME Runners, NEW r \in Runner, NEW R, Quiet(R), Sane(R), Born(r), runner[r].proc = "none",
         ~R.stopped, ~runner[r].stopped, R.pushes = runner[r].pushes,
         R.signalled = runner[r].signalled, Spawns(r, R)
  PROVE  Turn(r) /\ reports' \subseteq [by : Runner, to : State]
<1>1. runner[r] \in Fields /\ Sane(runner[r]) /\ reports \subseteq [by : Runner, to : State]
  BY DEF Runners, RunnerTypeOK
<1>2. CASE Becomes(r, Outcome(spawned(R), {"starting"}))
  <2> DEFINE S == spawned(R)
  <2>1. /\ R \in Fields /\ R.attempts \in 0..MaxRestarts /\ R.pushes \in 0..MaxRestarts
        /\ R.rapid <= R.attempts /\ R.pushes <= R.attempts
    BY DEF Quiet, Sane, Fields
  <2>2. S \in Fields
    <3> DEFINE A == [R EXCEPT !.proc = "silent"]
               B == [A EXCEPT !.live = FALSE]
               C == [B EXCEPT !.ack = TRUE]
    <3>1. A \in Fields /\ A.pushes = R.pushes
      BY <2>1 DEF Fields
    <3> HIDE DEF A
    <3>2. B \in Fields /\ B.pushes = R.pushes
      BY <3>1 DEF Fields
    <3> HIDE DEF B
    <3>3. C \in Fields /\ C.pushes = R.pushes
      BY <3>2 DEF Fields
    <3>4. S = [C EXCEPT !.pushes = @ + 1]
      BY DEF spawned, A, B
    <3> HIDE DEF C
    <3> QED BY <2>1, <3>3, <3>4 DEF Fields
  <2>3. /\ S.proc = "silent" /\ ~S.live /\ S.pushes = R.pushes + 1 /\ S.at = "no" /\ ~S.stopped
        /\ ~S.restart /\ ~S.stable /\ "this" \notin S.clearing
        /\ S.rapid = R.rapid /\ S.attempts = R.attempts /\ S.signalled = R.signalled
        /\ (S.signalled # "no" => S.stopped)
    BY <2>1 DEF spawned, Quiet, Fields
  <2> HIDE DEF S
  <2>4. Sane(S)
    BY <2>1, <2>3 DEF Sane
  <2>5. Follows(runner[r], S)
    BY <1>1, <2>1, <2>2, <2>3, <2>4 DEF Follows, Moves, Seen, Born
  <2>6. runner' = [runner EXCEPT ![r] = S] /\ reports' = reports \cup [by : {r}, to : {"starting"}]
    BY <1>2 DEF Becomes, Outcome, S
  <2> QED BY <1>1, <2>5, <2>6 DEF Turn, State
<1>3. ASSUME NEW fast \in BOOLEAN, Becomes(r, onExit(R, FALSE, fast, "exit"))
      PROVE  Turn(r) /\ reports' \subseteq [by : Runner, to : State]
  <2>1. Settles(R, onExit(R, FALSE, fast, "exit"))
    BY ExitSettles DEF Quiet
  <2>2. R.stopped = runner[r].stopped /\ R.at = "no"
    BY <1>1 DEF Quiet, Fields
  <2> QED BY <1>3, <2>1, <2>2, Called
<1> QED BY <1>2, <1>3 DEF Spawns

\* What a step of runner r does to the variables that are not the runner's.
Around ==
  /\ reports' \subseteq [by : Runner, to : State]
  /\ sdp' \in Runner \cup {Nobody} /\ cooling' \in BOOLEAN /\ trouble' \in 0..MaxTrouble
  /\ source' = source

LEMMA RefusesFollows ==
  ASSUME Runners, NEW r \in Runner, runner[r].at \notin {"unborn", "no"}, Refuses(r)
  PROVE  Turn(r) /\ reports' \subseteq [by : Runner, to : State]
<1> DEFINE R == returned(runner[r])
<1>1. /\ Quiet(R) /\ R.pushes = runner[r].pushes /\ R.stopped = runner[r].stopped
      /\ R.signalled = runner[r].signalled
  BY ReturnedQuiet DEF Runners, RunnerTypeOK
<1>2. Becomes(r, fail(R, FALSE, "start"))
  BY DEF Refuses
<1> HIDE DEF R
<1>3. Settles(R, fail(R, FALSE, "start"))
  BY <1>1, FailSettles
<1> QED BY <1>1, <1>2, <1>3, Called DEF Quiet, Born

LEMMA StartingFollows ==
  ASSUME Runners, NEW r \in Runner, Starting(r)
  PROVE  Turn(r) /\ Around
<1> DEFINE R == returned(runner[r])
<1>1. /\ runner[r] \in Fields /\ Sane(runner[r]) /\ runner \in [Runner -> Fields]
      /\ reports \subseteq [by : Runner, to : State]
      /\ sdp \in Runner \cup {Nobody} /\ cooling \in BOOLEAN /\ trouble \in 0..MaxTrouble
  BY DEF Runners, RunnerTypeOK
<1>2. runner[r].at \notin {"unborn", "no"} =>
        /\ Quiet(R) /\ Sane(R) /\ R.pushes = runner[r].pushes /\ R.stopped = runner[r].stopped
        /\ Born(r) /\ runner[r].proc = "none" /\ R \in Fields /\ R.signalled = runner[r].signalled
  BY <1>1, ReturnedQuiet DEF Quiet, Born, Sane
<1> HIDE DEF R
<1>3. CASE Restart(r)
  <2> DEFINE A == [runner[r] EXCEPT !.restart = FALSE]
             S == [A EXCEPT !.at = "lookup"]
  <2>1. A \in Fields /\ S \in Fields
    BY <1>1 DEF Fields
  <2>2. runner[r].at = "no" /\ runner[r].proc = "none" /\ ~runner[r].stopped
    BY <1>1, <1>3 DEF Restart, Sane, Fields
  <2>3. Sane(S) /\ S.proc = "none" /\ ~S.stopped /\ S.pushes = runner[r].pushes /\ S.at = "lookup"
        /\ S.signalled = runner[r].signalled
    BY <1>1, <2>1, <2>2 DEF Sane, Fields
  <2>4. runner' = [runner EXCEPT ![r] = S]
    BY <1>1, <1>3 DEF Restart
  <2> HIDE DEF S
  <2>5. Follows(runner[r], S)
    BY <2>1, <2>2, <2>3 DEF Follows, Moves, Seen
  <2> QED BY <1>1, <1>3, <2>4, <2>5 DEF Turn, Restart, Calm, Around
<1>4. CASE LookedUp(r)
  <2>1. runner[r].at = "lookup"
    BY <1>4 DEF LookedUp, Waits
  <2>2. CASE Refuses(r)
    BY <1>1, <1>4, <2>1, <2>2, RefusesFollows DEF LookedUp, Calm, Around
  <2>3. CASE Becomes(r, stop(R))
    <3>1. Follows(R, stop(R).left) /\ stop(R).left.stopped /\ stop(R).say \subseteq State
      BY <1>2, <2>1, StopFollows DEF Quiet
    <3>2. Follows(runner[r], stop(R).left)
      BY <1>2, <2>1, <3>1 DEF Follows, Moves, Quiet
    <3>3. /\ runner' = [runner EXCEPT ![r] = stop(R).left]
          /\ reports' = reports \cup [by : {r}, to : stop(R).say]
      BY <2>3 DEF Becomes
    <3>4. reports' \subseteq [by : Runner, to : State]
      BY <1>1, <3>1, <3>3
    <3> QED BY <1>1, <1>4, <3>2, <3>3, <3>4 DEF Turn, LookedUp, Calm, Around
  <2>4. CASE Becomes(r, Outcome([runner[r] EXCEPT !.at = "resolve"], {}))
    <3> DEFINE S == [runner[r] EXCEPT !.at = "resolve"]
    <3>1. /\ S \in Fields /\ Sane(S) /\ S.at # "unborn" /\ S.proc = "none"
          /\ S.stopped = runner[r].stopped /\ S.pushes = runner[r].pushes
          /\ S.signalled = runner[r].signalled
      BY <1>1, <1>2, <2>1 DEF Sane, Fields
    <3> HIDE DEF S
    <3> QED BY <1>1, <1>2, <1>4, <2>1, <2>4, <3>1, WentOn DEF S, LookedUp, Calm, Around
  <2> QED BY <1>4, <2>2, <2>3, <2>4 DEF LookedUp, R
<1>5. ASSUME Becomes(r, Outcome(R, {})), runner[r].at \notin {"unborn", "no"}
      PROVE  Turn(r) /\ reports' \subseteq [by : Runner, to : State]
  BY <1>2, <1>5, WentOn DEF Quiet
<1>6. CASE Resolved(r)
  <2>1. runner[r].at = "resolve"
    BY <1>6 DEF Resolved, Waits
  <2>2. CASE Refuses(r)
    BY <1>1, <1>6, <2>1, <2>2, RefusesFollows DEF Resolved, Calm, Around
  <2>3. CASE Becomes(r, Outcome([R EXCEPT !.at = "egress"], {}))
    <3> DEFINE S == [R EXCEPT !.at = "egress"]
    <3>1. /\ S \in Fields /\ Sane(S) /\ S.at # "unborn" /\ S.proc = "none"
          /\ S.stopped = runner[r].stopped /\ S.pushes = runner[r].pushes
          /\ S.signalled = runner[r].signalled
      BY <1>2, <2>1 DEF Sane, Fields, Quiet
    <3> HIDE DEF S
    <3> QED BY <1>1, <1>2, <1>6, <2>1, <2>3, <3>1, WentOn DEF S, Resolved, Calm, Around
  <2>4. CASE Spawns(r, R) /\ ~R.stopped
    BY <1>1, <1>2, <1>6, <2>1, <2>4, SpawnFollows DEF Resolved, Calm, Around
  <2>5. CASE Becomes(r, Outcome(R, {}))
    BY <1>1, <1>5, <1>6, <2>1, <2>5 DEF Resolved, Calm, Around
  <2> QED BY <1>6, <2>2, <2>3, <2>4, <2>5 DEF Resolved, R
<1>7. CASE Prepared(r)
  <2>1. runner[r].at = "egress"
    BY <1>7 DEF Prepared, Waits
  <2> DEFINE held == [R EXCEPT !.handle = TRUE]
  <2>2. /\ Quiet(held) /\ Sane(held) /\ held.stopped = runner[r].stopped
        /\ held.signalled = runner[r].signalled
        /\ held.pushes = runner[r].pushes /\ held.at = "no" /\ held \in Fields /\ held.proc = "none"
    BY <1>2, <2>1 DEF Quiet, Sane, Fields
  <2>3. sdp' \in Runner \cup {Nobody}
    BY <1>1, <1>7 DEF Prepared
  <2>4. CASE R.stopped /\ Becomes(r, Outcome(held, {}))
    <3> HIDE DEF held
    <3> QED BY <1>1, <1>2, <1>7, <2>1, <2>2, <2>3, <2>4, WentOn DEF Prepared, Calm, Around
  <2>5. CASE ~R.stopped /\ Spawns(r, held)
    <3> HIDE DEF held
    <3> QED BY <1>1, <1>2, <1>7, <2>1, <2>2, <2>3, <2>5, SpawnFollows DEF Prepared, Calm, Around
  <2>6. CASE Becomes(r, scheduleRestart(R, TRUE, "start"))
    <3>1. Settles(R, scheduleRestart(R, TRUE, "start"))
      BY <1>2, <2>1, RestartSettles
    <3>2. R.at # "unborn"
      BY <1>2, <2>1 DEF Quiet
    <3> QED BY <1>1, <1>2, <1>7, <2>1, <2>3, <2>6, <3>1, <3>2, Called DEF Prepared, Calm, Around
  <2> QED BY <1>7, <2>4, <2>5, <2>6 DEF Prepared, R
<1> QED BY <1>3, <1>4, <1>6, <1>7 DEF Starting

LEMMA ConfirmedFollows ==
  ASSUME NEW R \in Fields, Sane(R), R.proc # "none"
  PROVE  Follows(R, confirmedLive(R))
<1> DEFINE A == [R EXCEPT !.live = TRUE]
           B == [A EXCEPT !.ever = TRUE]
           C == [B EXCEPT !.rapid = 0]
           S == [C EXCEPT !.clearing = @ \cup {"this"}]
<1>4. R.clearing \in SUBSET {"this", "old"} /\ R.attempts \in 0..MaxRestarts
  BY DEF Fields
<1>5. S \in Fields
  <2>1. A \in Fields /\ A.clearing = R.clearing
    BY DEF Fields
  <2> HIDE DEF A
  <2>2. B \in Fields /\ B.clearing = R.clearing
    BY <2>1 DEF Fields
  <2> HIDE DEF B
  <2>3. C \in Fields /\ C.clearing = R.clearing
    BY <2>2 DEF Fields
  <2> HIDE DEF C
  <2> QED BY <1>4, <2>3 DEF Fields
<1>6. /\ S.live /\ S.rapid = 0 /\ S.attempts = R.attempts /\ S.pushes = R.pushes /\ S.proc = R.proc
      /\ S.at = R.at /\ S.restart = R.restart /\ S.stopped = R.stopped /\ S.signalled = R.signalled
  BY DEF Fields
<1>7. confirmedLive(R) = S
  BY DEF confirmedLive
<1> HIDE DEF S
<1>8. Sane(S) /\ ~S.stopped
  BY <1>4, <1>6 DEF Sane
<1>9. Moves(R, S)
  BY <1>6, <1>8 DEF Moves, Seen
<1> QED BY <1>5, <1>6, <1>7, <1>8, <1>9 DEF Follows

\* One field of the process changes, and the platform sees nothing of it.
LEMMA Unseen ==
  ASSUME NEW R \in Fields, Sane(R), NEW S \in Fields, Sane(S),
         S.at = R.at, S.stopped = R.stopped, S.pushes = R.pushes, S.live = R.live,
         S.proc = "none" <=> R.proc = "none", S.signalled = "term" => R.signalled = "term"
  PROVE  Follows(R, S)
  BY DEF Follows, Moves, Seen

LEMMA ProcessFollows ==
  ASSUME Runners, NEW r \in Runner, Process(r)
  PROVE  Turn(r) /\ Around
<1> DEFINE R == runner[r]
<1>1. /\ R \in Fields /\ Sane(R) /\ runner \in [Runner -> Fields]
      /\ reports \subseteq [by : Runner, to : State]
      /\ sdp \in Runner \cup {Nobody} /\ cooling \in BOOLEAN /\ trouble \in 0..MaxTrouble
  BY DEF Runners, RunnerTypeOK
<1>2. ASSUME NEW S, Step(r, S), Follows(R, S) PROVE Turn(r)
  BY <1>2 DEF Step, Turn
<1>3. CASE Progress(r)
  <2> DEFINE S == [R EXCEPT !.proc = IF @ = "silent" THEN "talking" ELSE @]
  <2>1. R.proc \in {"silent", "talking", "ending"}
    BY <1>3 DEF Progress
  <2>2. S \in Fields /\ Sane(S) /\ S.proc # "none"
    BY <1>1, <2>1 DEF Fields, Sane
  <2>3. /\ S.at = R.at /\ S.stopped = R.stopped /\ S.pushes = R.pushes /\ S.live = R.live
        /\ S.signalled = R.signalled
    BY <1>1 DEF Fields
  <2>4. Step(r, S) \/ (~S.live /\ Step(r, confirmedLive(S)))
    BY <1>3 DEF Progress
  <2> HIDE DEF S
  <2>5. Follows(R, S)
    BY <1>1, <2>1, <2>2, <2>3, Unseen
  <2>6. ~S.live => Follows(R, confirmedLive(S))
    <3>1. Follows(S, confirmedLive(S))
      BY <2>2, ConfirmedFollows
    <3> QED BY <1>1, <2>1, <2>2, <2>3, <3>1 DEF Follows, Moves, Seen
  <2> HIDE DEF R
  <2> QED BY <1>1, <1>2, <1>3, <2>4, <2>5, <2>6 DEF Progress, Calm, Around
<1>4. CASE AckTimeout(r)
  <2> DEFINE A == [R EXCEPT !.ack = FALSE]
             E == [A EXCEPT !.proc = "ending"]
  <2>1. R.ack /\ R.proc # "none"
    BY <1>1, <1>4 DEF AckTimeout, Sane
  <2>2. A \in Fields /\ Sane(A) /\ E \in Fields /\ Sane(E)
    BY <1>1, <2>1 DEF Fields, Sane
  <2>3. /\ A.at = R.at /\ A.stopped = R.stopped /\ A.pushes = R.pushes /\ A.live = R.live /\ A.proc = R.proc
        /\ E.at = R.at /\ E.stopped = R.stopped /\ E.pushes = R.pushes /\ E.live = R.live /\ E.proc = "ending"
        /\ A.signalled = R.signalled /\ E.signalled = R.signalled
    BY <1>1 DEF Fields
  <2>4. Step(r, A) \/ (~A.live /\ Step(r, confirmedLive(A))) \/ Step(r, E)
    BY <1>4 DEF AckTimeout
  <2> HIDE DEF A, E
  <2>5. Follows(R, A) /\ Follows(R, E)
    BY <1>1, <2>1, <2>2, <2>3, Unseen
  <2>6. ~A.live => Follows(R, confirmedLive(A))
    <3>1. Follows(A, confirmedLive(A))
      BY <2>1, <2>2, <2>3, ConfirmedFollows
    <3> QED BY <1>1, <2>1, <2>2, <2>3, <3>1 DEF Follows, Moves, Seen
  <2> HIDE DEF R
  <2> QED BY <1>1, <1>2, <1>4, <2>4, <2>5, <2>6 DEF AckTimeout, Calm, Around
<1>5. CASE ClearedCooldown(r)
  <2>1. cooling' \in BOOLEAN /\ trouble' \in 0..MaxTrouble
    <3>1. (Calm /\ clearDestinationCooldown) \/ (Trouble /\ UNCHANGED cooling)
      <4>1. ClearedCooldown(r)
        BY <1>5
      <4> HIDE DEF R
      <4> QED BY <4>1 DEF ClearedCooldown
    <3>2. cooling \in BOOLEAN /\ trouble \in 0..MaxTrouble
      BY <1>1
    <3>3. cooling' \in BOOLEAN
      BY <3>1, <3>2, Zenon DEF clearDestinationCooldown
    <3>4. trouble' \in 0..MaxTrouble
      BY <3>1, <3>2 DEF Calm, Trouble
    <3> QED BY <3>3, <3>4
  <2>2. PICK which \in R.clearing :
          Becomes(r, Outcome([R EXCEPT !.clearing = @ \ {which}, !.stable = @ \/ which = "this"], {"live"}))
    BY <1>5 DEF ClearedCooldown
  <2> DEFINE A == [R EXCEPT !.clearing = @ \ {which}]
             S == [A EXCEPT !.stable = @ \/ which = "this"]
  <2>3. A \in Fields /\ A.stable = R.stable
    BY <1>1 DEF Fields
  <2>4. (R.stable \/ which = "this") \in BOOLEAN
    OBVIOUS
  <2>5. S \in Fields
    BY <1>1, <2>3, <2>4 DEF Fields
  <2>6. /\ S.clearing = R.clearing \ {which} /\ S.stable = (R.stable \/ which = "this")
        /\ S.at = R.at /\ S.stopped = R.stopped /\ S.pushes = R.pushes /\ S.live = R.live
        /\ S.proc = R.proc /\ S.restart = R.restart /\ S.ack = R.ack
        /\ S.rapid = R.rapid /\ S.attempts = R.attempts /\ S.signalled = R.signalled
    BY <1>1 DEF Fields
  <2>7. /\ runner' = [runner EXCEPT ![r] = S]
        /\ reports' = reports \cup [by : {r}, to : {"live"}]
    BY <2>2 DEF Becomes, Outcome
  <2> HIDE DEF S
  <2>8. Sane(S)
    BY <1>1, <2>2, <2>6 DEF Sane
  <2>9. Follows(R, S)
    BY <1>1, <2>5, <2>6, <2>8, Unseen
  <2>10. reports' \subseteq [by : Runner, to : State]
    BY <1>1, <2>7 DEF State
  <2>11. Turn(r)
    BY <2>7, <2>9 DEF Turn
  <2> QED BY <1>1, <1>5, <2>1, <2>10, <2>11 DEF ClearedCooldown, Around
<1>6. CASE Stable(r)
  <2> DEFINE A == [R EXCEPT !.stable = FALSE]
             B == [A EXCEPT !.attempts = 0]
             C == [B EXCEPT !.rapid = 0]
             S == [C EXCEPT !.pushes = 1]
  <2>1. R.stable /\ R.live /\ R.proc # "none" /\ ~R.stopped
    BY <1>1, <1>6 DEF Stable, Sane
  <2>5. S \in Fields
    <3>1. A \in Fields
      BY <1>1 DEF Fields
    <3> HIDE DEF A
    <3>2. B \in Fields
      BY <3>1 DEF Fields
    <3> HIDE DEF B
    <3>3. C \in Fields
      BY <3>2 DEF Fields
    <3> HIDE DEF C
    <3> QED BY <3>3 DEF Fields
  <2>6. /\ ~S.stable /\ S.attempts = 0 /\ S.rapid = 0 /\ S.pushes = 1
        /\ S.at = R.at /\ S.stopped = R.stopped /\ S.live = R.live /\ S.proc = R.proc
        /\ S.restart = R.restart /\ S.ack = R.ack /\ S.clearing = R.clearing
        /\ S.signalled = R.signalled
    BY <1>1 DEF Fields
  <2>7. Step(r, S)
    BY <1>6 DEF Stable
  <2> HIDE DEF S
  <2>8. Sane(S)
    BY <1>1, <2>1, <2>6 DEF Sane
  <2>9. Follows(R, S)
    BY <2>1, <2>5, <2>6, <2>8 DEF Follows, Moves, Seen
  <2> QED BY <1>1, <1>2, <1>6, <2>7, <2>9 DEF Stable, Calm, Around
<1>7. CASE Exit(r)
  <2>1. R.proc # "none"
    BY <1>7 DEF Exit
  <2>2. PICK clean \in BOOLEAN, fast \in BOOLEAN : Becomes(r, onExit(R, clean, fast, "exit"))
    BY <1>7 DEF Exit
  <2>3. /\ R.at = "no" /\ ~R.restart /\ (R.stopped => R.pushes = 0)
        /\ R.rapid <= R.attempts /\ R.pushes <= R.attempts + 1 /\ (R.signalled # "no" => R.stopped)
    BY <1>1, <2>1 DEF Sane
  <2>4. Settles(R, onExit(R, clean, fast, "exit"))
    BY <1>1, <2>3, ExitSettles
  <2>5. Turn(r) /\ reports' \subseteq [by : Runner, to : State]
    BY <2>2, <2>3, <2>4, Called DEF Born
  <2> QED BY <1>1, <1>7, <2>5 DEF Exit, Calm, Around
<1> QED BY <1>3, <1>4, <1>5, <1>6, <1>7 DEF Process

LEMMA EndingFollows ==
  ASSUME Runners, NEW r \in Runner, Ending(r)
  PROVE  Turn(r) /\ Around
<1> DEFINE R == runner[r]
<1>1. /\ R \in Fields /\ Sane(R) /\ reports \subseteq [by : Runner, to : State]
      /\ sdp \in Runner \cup {Nobody} /\ cooling \in BOOLEAN /\ trouble \in 0..MaxTrouble
  BY DEF Runners, RunnerTypeOK
<1>2. CASE MarkedFailure(r)
  <2> DEFINE A == [R EXCEPT !.marking = "no"]
             S == [A EXCEPT !.cleaning = R.handle]
  <2>1. A \in Fields /\ Sane(A) /\ R.handle \in BOOLEAN
    BY <1>1 DEF Fields, Sane
  <2>2. /\ A.at = R.at /\ A.stopped = R.stopped /\ A.pushes = R.pushes /\ A.live = R.live
        /\ A.proc = R.proc /\ A.signalled = R.signalled
    BY <1>1 DEF Fields
  <2>3. /\ runner' = [runner EXCEPT ![r] = S]
        /\ reports' = reports \cup [by : {r}, to : {"failed"}] /\ cooling' = TRUE
    BY <1>2 DEF MarkedFailure, Becomes, Outcome, markDestinationFailure
  <2> HIDE DEF A
  <2>4. S \in Fields /\ Sane(S)
    BY <2>1 DEF Fields, Sane
  <2>5. /\ S.at = R.at /\ S.stopped = R.stopped /\ S.pushes = R.pushes /\ S.live = R.live
        /\ S.proc = R.proc /\ S.signalled = R.signalled
    BY <2>1, <2>2 DEF Fields
  <2> HIDE DEF S
  <2>6. Turn(r)
    BY <1>1, <2>3, <2>4, <2>5, Unseen DEF Turn
  <2>7. reports' \subseteq [by : Runner, to : State]
    BY <1>1, <2>3 DEF State
  <2> QED BY <1>1, <1>2, <2>3, <2>6, <2>7 DEF MarkedFailure, Calm, Around
<1>3. CASE MarkFails(r)
  <2> DEFINE S == [R EXCEPT !.marking = "no"]
  <2>1. S \in Fields /\ Sane(S)
    BY <1>1 DEF Fields, Sane
  <2>2. /\ S.at = R.at /\ S.stopped = R.stopped /\ S.pushes = R.pushes /\ S.live = R.live
        /\ S.proc = R.proc /\ S.signalled = R.signalled
    BY <1>1 DEF Fields
  <2>3. runner' = [runner EXCEPT ![r] = S]
    BY <1>3 DEF MarkFails, Step
  <2> HIDE DEF S
  <2>4. Turn(r)
    BY <1>1, <2>1, <2>2, <2>3, Unseen DEF Turn
  <2> QED BY <1>1, <1>3, <2>4 DEF MarkFails, Trouble, Around
<1>4. CASE CleanedUp(r)
  <2> DEFINE A == [R EXCEPT !.cleaning = FALSE]
             S == [A EXCEPT !.handle = FALSE]
  <2>1. A \in Fields /\ Sane(A)
    BY <1>1 DEF Fields, Sane
  <2>2. /\ A.at = R.at /\ A.stopped = R.stopped /\ A.pushes = R.pushes /\ A.live = R.live
        /\ A.proc = R.proc /\ A.signalled = R.signalled
    BY <1>1 DEF Fields
  <2>3. runner' = [runner EXCEPT ![r] = S] /\ sdp' = Nobody
    BY <1>4 DEF CleanedUp, Step
  <2> HIDE DEF A
  <2>4. S \in Fields /\ Sane(S)
    BY <2>1 DEF Fields, Sane
  <2>5. /\ S.at = R.at /\ S.stopped = R.stopped /\ S.pushes = R.pushes /\ S.live = R.live
        /\ S.proc = R.proc /\ S.signalled = R.signalled
    BY <2>1, <2>2 DEF Fields
  <2> HIDE DEF S
  <2>6. Turn(r)
    BY <1>1, <2>3, <2>4, <2>5, Unseen DEF Turn
  <2> QED BY <1>1, <1>4, <2>3, <2>6 DEF CleanedUp, Calm, Around
<1> QED BY <1>2, <1>3, <1>4 DEF Ending

LEMMA KilledFollows ==
  ASSUME Runners, NEW r \in Runner, Killed(r)
  PROVE  Turn(r) /\ Around
<1> DEFINE S == [runner[r] EXCEPT !.signalled = "no"]
<1>1. /\ runner[r] \in Fields /\ Sane(runner[r]) /\ reports \subseteq [by : Runner, to : State]
      /\ sdp \in Runner \cup {Nobody} /\ cooling \in BOOLEAN /\ trouble \in 0..MaxTrouble
  BY DEF Runners, RunnerTypeOK
<1>2. S \in Fields /\ Sane(S)
  BY <1>1 DEF Fields, Sane
<1>3. /\ S.at = runner[r].at /\ S.stopped = runner[r].stopped /\ S.pushes = runner[r].pushes
      /\ S.live = runner[r].live /\ S.proc = runner[r].proc /\ S.signalled = "no"
  BY <1>1 DEF Fields
<1>4. runner' = [runner EXCEPT ![r] = S]
  BY DEF Killed, Step
<1> HIDE DEF S
<1>5. Turn(r)
  BY <1>1, <1>2, <1>3, <1>4, Unseen DEF Turn
<1> QED BY <1>1, <1>5 DEF Killed, Calm, Around

-----------------------------------------------------------------------------
(* The runners map and the row                                             *)

\* The inductive invariant: besides the runners, that every runner but the one
\* in the map was stopped, and that only a worker that hands over or is gone
\* leaves a process with SIGTERM alone.
IInv ==
  /\ TypeOK
  /\ \A r \in Runner : Sane(runner[r])
  /\ \A r \in Runner : Born(r) /\ r # current => runner[r].stopped
  /\ current # Nobody => Born(current)
  /\ \A r \in Runner : runner[r].signalled = "term" => worker # "up"

AllMove == \A p \in Runner : Moves(runner[p], runner'[p])

\* One runner takes a turn and keeps its place in the map, or leaves it stopped.
LEMMA TurnKeeps ==
  ASSUME IInv, NEW r \in Runner, Turn(r), Around,
         row' = row, worker' = worker, requests' = requests,
         \/ current' = current
         \/ current' = Nobody /\ r = current /\ runner'[r].stopped
  PROVE  IInv' /\ AllMove
<1>1. runner \in [Runner -> Fields] /\ \A p \in Runner : Sane(runner[p])
  BY DEF IInv, TypeOK, RunnerTypeOK
<1>2. PICK S : runner' = [runner EXCEPT ![r] = S] /\ Follows(runner[r], S)
  BY DEF Turn
<1>3. /\ runner' \in [Runner -> Fields]
      /\ runner'[r] = S /\ \A p \in Runner \ {r} : runner'[p] = runner[p]
  BY <1>1, <1>2 DEF Follows
<1>4. \A p \in Runner : Sane(runner'[p])
  BY <1>1, <1>2, <1>3 DEF Follows
<1>5. AllMove
  BY <1>1, <1>2, <1>3 DEF AllMove, Follows, Moves
<1>6. /\ \A p \in Runner : Born(p)' <=> Born(p)
      /\ \A p \in Runner : runner[p].stopped => runner'[p].stopped
  BY <1>1, <1>2, <1>3 DEF Born, Follows
<1>7. TypeOK'
  <2>1. RunnerTypeOK'
    BY <1>3 DEF IInv, TypeOK, RunnerTypeOK, Around
  <2>2. row' \in [state : {"pending"} \cup State, desired : {"run", "stop"}]
    BY DEF IInv, TypeOK
  <2> QED BY <2>1, <2>2 DEF IInv, TypeOK
<1>8. current \in Runner \cup {Nobody}
  BY DEF IInv, TypeOK
<1>9. \A p \in Runner : (Born(p) /\ p # current => runner[p].stopped)'
  BY <1>3, <1>6, <1>8 DEF IInv
<1>10. (current # Nobody => Born(current))'
  BY <1>6, <1>8 DEF IInv
<1>11. \A p \in Runner : (runner[p].signalled = "term" => worker # "up")'
  BY <1>2, <1>3 DEF IInv, Follows
<1> QED BY <1>4, <1>5, <1>7, <1>9, <1>10, <1>11 DEF IInv

\* The runners stay as they are.
LEMMA NoTurn ==
  ASSUME IInv, runner' = runner
  PROVE  AllMove
  BY DEF AllMove, Moves

\* Only the row, the reports, the requests or the counts change.
LEMMA Aside ==
  ASSUME IInv, runner' = runner, current' = current, worker' = worker, TypeOK'
  PROVE  IInv' /\ AllMove
  BY NoTurn DEF IInv, Born

LEMMA PollKeeps == ASSUME IInv, Poll PROVE IInv' /\ AllMove
<1>1. /\ RunnerTypeOK /\ row \in [state : {"pending"} \cup State, desired : {"run", "stop"}]
      /\ current \in Runner \cup {Nobody} /\ worker \in {"up", "handed", "gone"}
      /\ requests \in 0..MaxRequests /\ Runners
  BY DEF IInv, TypeOK, Runners
<1>2. CASE PollStop
  <2>1. current \in Runner /\ Born(current)
    BY <1>1, <1>2 DEF PollStop, IInv
  <2> DEFINE out == stop(runner[current])
  <2>2. Follows(runner[current], out.left) /\ out.left.stopped /\ out.say \subseteq State
    BY <1>1, <2>1, StopFollows DEF Runners, RunnerTypeOK, Born
  <2>3. /\ runner' = [runner EXCEPT ![current] = out.left]
        /\ reports' = reports \cup [by : {current}, to : out.say]
    BY <1>2 DEF PollStop, Becomes
  <2> HIDE DEF out
  <2>4. Turn(current)
    BY <2>2, <2>3 DEF Turn
  <2>5. Around
    BY <1>1, <1>2, <2>1, <2>2, <2>3 DEF PollStop, world, Around, RunnerTypeOK
  <2>6. runner'[current].stopped
    BY <1>1, <2>1, <2>2, <2>3 DEF RunnerTypeOK
  <2> QED BY <1>2, <2>1, <2>4, <2>5, <2>6, TurnKeeps DEF PollStop
<1>3. CASE PollStopped
  <2>1. TypeOK'
    BY <1>1, <1>3 DEF PollStopped, running, TypeOK, RunnerTypeOK, State
  <2> QED BY <1>3, <2>1, Aside DEF PollStopped, running
<1>4. CASE PollReap
  <2>1. TypeOK'
    BY <1>1, <1>4 DEF PollReap, running, TypeOK, RunnerTypeOK
  <2>2. runner' = runner /\ worker' = worker /\ current' = Nobody /\ runner[current].stopped
    BY <1>4 DEF PollReap, running
  <2> QED BY <2>1, <2>2, NoTurn DEF IInv, Born
<1>5. CASE PollStart
  <2>1. PICK r \in Runner : ~Born(r) /\ runner' = [runner EXCEPT ![r] = constructed] /\ current' = r
    BY <1>5 DEF PollStart
  <2>2. /\ runner \in [Runner -> Fields] /\ runner[r] \in Fields /\ Sane(runner[r])
        /\ runner[r].at = "unborn"
    BY <1>1, <2>1 DEF RunnerTypeOK, Runners, Born
  <2>3. runner[r].proc = "none" /\ ~runner[r].stopped /\ runner[r].pushes = 0
    BY <2>2 DEF Sane
  <2>4. /\ runner' \in [Runner -> Fields] /\ runner'[r] = constructed
        /\ \A p \in Runner \ {r} : runner'[p] = runner[p]
    BY <2>1, <2>2, Constructed
  <2>5. TypeOK'
    BY <1>1, <1>5, <2>1, <2>4 DEF PollStart, world, TypeOK, RunnerTypeOK
  <2>6. \A p \in Runner : Sane(runner'[p])
    BY <1>1, <2>4, Constructed DEF Runners
  <2>7. AllMove
    BY <2>3, <2>4, Constructed DEF AllMove, Moves, Seen
  <2>8. current = Nobody
    BY <1>5 DEF PollStart
  <2>9. \A p \in Runner : (Born(p) /\ p # current => runner[p].stopped)'
    BY <2>1, <2>4, <2>8 DEF IInv, Born
  <2>10. (current # Nobody => Born(current))'
    BY <2>1, <2>4, Constructed DEF Born
  <2>11. \A p \in Runner : (runner[p].signalled = "term" => worker # "up")'
    BY <1>5, <2>4, Constructed DEF IInv, PollStart
  <2> QED BY <2>5, <2>6, <2>7, <2>9, <2>10, <2>11 DEF IInv
<1> QED BY <1>2, <1>3, <1>4, <1>5 DEF Poll

\* The drain deadline stops the runner in the map like stop(), with SIGTERM alone.
LEMMA HandOverKeeps == ASSUME IInv, HandOver PROVE IInv' /\ AllMove
<1>1. /\ RunnerTypeOK /\ current \in Runner \cup {Nobody} /\ Runners
      /\ \A r \in Runner : runner[r] \in Fields /\ Sane(runner[r])
  BY DEF IInv, TypeOK, Runners, RunnerTypeOK
<1>2. worker' = "handed"
  BY DEF HandOver
<1>3. CASE current = Nobody
  <2>1. runner' = runner /\ current' = current
    BY <1>3 DEF HandOver
  <2>2. TypeOK'
    BY <1>1, <2>1 DEF HandOver, world, IInv, TypeOK, RunnerTypeOK
  <2> QED BY <1>2, <2>1, <2>2, NoTurn DEF IInv, Born
<1>4. CASE current # Nobody
  <2> DEFINE R == runner[current]
             quiet == over(clearTimers(ended(R)))
             signal == IF R.proc = "none" THEN quiet.signalled ELSE "term"
             S == [quiet EXCEPT !.signalled = signal]
  <2>1. current \in Runner /\ Born(current) /\ R \in Fields /\ Sane(R) /\ R.at # "unborn"
    BY <1>1, <1>4 DEF IInv, Born
  <2>2. clearTimers(ended(R)) \in Fields
    BY <2>1, EndedType, ClearTimersType
  <2>3. /\ quiet \in Fields /\ quiet.stopped /\ quiet.proc = "none" /\ quiet.at = R.at
        /\ ~quiet.ack /\ ~quiet.stable /\ ~quiet.restart /\ "this" \notin quiet.clearing
        /\ quiet.attempts = 0 /\ quiet.rapid = 0 /\ quiet.pushes = 0
    BY <2>1, <2>2, EndedType, ClearTimersType, OverType
  <2>4. runner' = [runner EXCEPT ![current] = S]
    BY <1>4 DEF HandOver, Step
  <2>5. signal \in {"no", "term", "kill"}
    BY <2>3 DEF Fields
  <2> HIDE DEF signal, quiet
  <2>6. S \in Fields /\ Sane(S) /\ S.stopped /\ S.at = R.at
    <3>1. S \in Fields
      BY <2>3, <2>5 DEF Fields
    <3>2. /\ S.stopped /\ S.proc = "none" /\ S.at = R.at
          /\ ~S.ack /\ ~S.stable /\ ~S.restart /\ "this" \notin S.clearing
          /\ S.attempts = 0 /\ S.rapid = 0 /\ S.pushes = 0
      BY <2>3 DEF Fields
    <3> HIDE DEF S
    <3> QED BY <2>1, <3>1, <3>2 DEF Sane
  <2>7. Moves(R, S)
    BY <2>6 DEF Moves
  <2> HIDE DEF S
  <2>8. /\ runner' \in [Runner -> Fields] /\ runner'[current] = S
        /\ \A p \in Runner \ {current} : runner'[p] = runner[p]
    BY <1>1, <2>1, <2>4, <2>6 DEF RunnerTypeOK
  <2>9. TypeOK'
    BY <1>1, <2>8 DEF HandOver, world, IInv, TypeOK, RunnerTypeOK
  <2>10. \A p \in Runner : Sane(runner'[p])
    BY <1>1, <2>6, <2>8
  <2>11. AllMove
    BY <2>7, <2>8 DEF AllMove, Moves
  <2>12. \A p \in Runner : Born(p)' => runner'[p].stopped
    BY <2>6, <2>8 DEF IInv, Born
  <2>13. current' = Nobody
    BY DEF HandOver
  <2> QED BY <1>2, <2>9, <2>10, <2>11, <2>12, <2>13 DEF IInv
<1> QED BY <1>3, <1>4

\* With the process every runner is over.
LEMMA GoneKeeps ==
  ASSUME IInv, NEW last \in {"term", "kill"}, Gone(last),
         source' = source, sdp' = sdp, cooling' = cooling, trouble' \in 0..MaxTrouble,
         row' = row, requests' = requests
  PROVE  IInv' /\ AllMove
<1> DEFINE signal(r) == IF runner[r].proc # "none" THEN last
                        ELSE IF runner[r].signalled = "kill" THEN "term"
                        ELSE runner[r].signalled
           S(r) == [unborn EXCEPT !.at = "no", !.stopped = TRUE, !.signalled = signal(r)]
<1>1. runner \in [Runner -> Fields]
  BY DEF IInv, TypeOK, RunnerTypeOK
<1>2. \A r \in Runner : signal(r) \in {"no", "term", "kill"}
  BY <1>1 DEF Fields
<1>3. ASSUME NEW r \in Runner
      PROVE  S(r) \in Fields /\ Sane(S(r)) /\ S(r).stopped
  <2> DEFINE A == [unborn EXCEPT !.at = "no"]
             B == [A EXCEPT !.stopped = TRUE]
  <2>1. /\ A \in Fields /\ A.at = "no" /\ A.proc = "none" /\ A.pushes = 0 /\ A.attempts = 0
        /\ A.rapid = 0 /\ ~A.ack /\ ~A.stable /\ ~A.restart /\ A.clearing = {}
    <3>1. /\ unborn \in Fields /\ unborn.proc = "none" /\ unborn.pushes = 0 /\ unborn.attempts = 0
          /\ unborn.rapid = 0 /\ ~unborn.ack /\ ~unborn.stable /\ ~unborn.restart
          /\ unborn.clearing = {}
      BY Unborn DEF unborn
    <3> QED BY <3>1 DEF Fields
  <2> HIDE DEF A
  <2>2. B \in Fields /\ Sane(B) /\ B.stopped /\ B.at = "no"
    <3>1. B \in Fields
      BY <2>1 DEF Fields
    <3>2. /\ B.stopped /\ B.at = "no" /\ B.proc = "none" /\ B.pushes = 0 /\ B.attempts = 0
          /\ B.rapid = 0 /\ ~B.ack /\ ~B.stable /\ ~B.restart /\ B.clearing = {}
      BY <2>1 DEF Fields
    <3> HIDE DEF B
    <3> QED BY <3>1, <3>2 DEF Sane
  <2>3. S(r) = [B EXCEPT !.signalled = signal(r)]
    BY DEF A
  <2> HIDE DEF B, S
  <2> QED BY <1>2, <2>2, <2>3 DEF Fields, Sane
<1>4. runner' = [r \in Runner |-> S(r)] /\ worker' = "gone" /\ current' = Nobody /\ reports' = {}
  BY DEF Gone
<1> HIDE DEF S
<1>5. runner' \in [Runner -> Fields] /\ \A r \in Runner : Sane(runner'[r]) /\ runner'[r].stopped
  BY <1>3, <1>4
<1>6. TypeOK'
  BY <1>4, <1>5 DEF IInv, TypeOK, RunnerTypeOK
<1> QED BY <1>4, <1>5, <1>6 DEF IInv, AllMove, Moves

LEMMA CommitKeeps == ASSUME IInv, Commit PROVE IInv' /\ AllMove
<1>1. PICK r \in reports :
        /\ reports' = reports \ {r}
        /\ \/ Calm /\ row' = [row EXCEPT !.state = IF worker = "up" THEN r.to ELSE @]
           \/ Trouble /\ UNCHANGED row
  BY DEF Commit
<1>2. /\ r \in [by : Runner, to : State]
      /\ row \in [state : {"pending"} \cup State, desired : {"run", "stop"}]
      /\ trouble \in 0..MaxTrouble
  BY DEF IInv, TypeOK, RunnerTypeOK
<1>3. row' \in [state : {"pending"} \cup State, desired : {"run", "stop"}]
  BY <1>1, <1>2
<1>4. trouble' \in 0..MaxTrouble
  BY <1>1, <1>2 DEF Calm, Trouble
<1>5. reports' \subseteq [by : Runner, to : State]
  BY <1>1 DEF IInv, TypeOK, RunnerTypeOK
<1>6. TypeOK'
  BY <1>3, <1>4, <1>5 DEF Commit, IInv, TypeOK, RunnerTypeOK
<1> QED BY <1>6, Aside DEF Commit

LEMMA AskKeeps ==
  ASSUME IInv, NEW to \in [state : {"pending"} \cup State, desired : {"run", "stop"}], Ask(to)
  PROVE  IInv' /\ AllMove
<1>1. TypeOK'
  BY DEF Ask, running, IInv, TypeOK, RunnerTypeOK
<1> QED BY <1>1, Aside DEF Ask, running

LEMMA OutsideKeeps == ASSUME IInv, Outside PROVE IInv' /\ AllMove
<1>1. row \in [state : {"pending"} \cup State, desired : {"run", "stop"}] /\ trouble \in 0..MaxTrouble
  BY DEF IInv, TypeOK, RunnerTypeOK
<1>2. CASE RequestStop
  <2>1. [row EXCEPT !.desired = "stop"] \in [state : {"pending"} \cup State, desired : {"run", "stop"}]
    BY <1>1
  <2> QED BY <1>2, <2>1, AskKeeps DEF RequestStop
<1>3. CASE RequestStart
  <2>1. [state |-> IF Open THEN row.state ELSE "pending", desired |-> "run"]
          \in [state : {"pending"} \cup State, desired : {"run", "stop"}]
    BY <1>1
  <2> QED BY <1>3, <2>1, AskKeeps DEF RequestStart
<1>4. CASE Exits
  BY <1>1, <1>4, GoneKeeps DEF Exits, Calm
<1>5. CASE MarkCrashes
  BY <1>1, <1>5, GoneKeeps DEF MarkCrashes, Trouble
<1> QED BY <1>2, <1>3, <1>4, <1>5, CommitKeeps, HandOverKeeps DEF Outside

LEMMA InsideKeeps ==
  ASSUME IInv, NEW r \in Runner, Inside(r) \/ Dies(r)
  PROVE  IInv' /\ AllMove
<1>1. Runners
  BY DEF IInv, TypeOK, Runners
<1>2. Turn(r) /\ Around
  BY <1>1, StartingFollows, ProcessFollows, EndingFollows, KilledFollows DEF Inside, Dies
<1> QED BY <1>2, TurnKeeps DEF Inside, Dies

LEMMA StepKeeps == ASSUME IInv, [Next]_vars PROVE IInv' /\ AllMove
<1>1. CASE UNCHANGED vars
  <2>1. TypeOK'
    BY <1>1 DEF vars, running, IInv, TypeOK, RunnerTypeOK
  <2> QED BY <1>1, <2>1, Aside DEF vars, running
<1> QED BY <1>1, PollKeeps, OutsideKeeps, InsideKeeps DEF Next

LEMMA Starts == Init => IInv
<1>1. SUFFICES ASSUME Init PROVE IInv
  OBVIOUS
<1>2. runner = [r \in Runner |-> unborn] /\ runner \in [Runner -> Fields]
  BY <1>1, Unborn DEF Init, RunnerInit
<1>3. RunnerTypeOK
  <2>1. sdp = Nobody /\ reports = {} /\ trouble = 0 /\ source \in {"pull", "webrtc"}
    BY <1>1 DEF Init, RunnerInit
  <2>2. cooling \in BOOLEAN
    BY <1>1, Zenon DEF Init, RunnerInit
  <2>3. /\ source \in {"pull", "webrtc"} /\ sdp \in Runner \cup {Nobody}
        /\ reports \subseteq [by : Runner, to : State] /\ trouble \in 0..MaxTrouble
    BY <2>1 DEF State
  <2> QED BY <1>2, <2>2, <2>3 DEF RunnerTypeOK
<1>4. TypeOK
  BY <1>1, <1>3 DEF Init, TypeOK
<1> QED BY <1>1, <1>2, <1>4, Unborn DEF Init, IInv, Born

LEMMA Always == Spec => []IInv
<1>1. IInv /\ [Next]_vars => IInv'
  BY StepKeeps
<1> QED BY <1>1, Starts, PTL DEF Spec

-----------------------------------------------------------------------------
(* Theorems                                                                *)

\* Every field of every runner stays within its limits: restarts and rapid
\* crashes are never counted beyond maxRestarts.
THEOREM RunnerTypeCorrect == Spec => []TypeOK
<1>1. IInv => TypeOK
  BY DEF IInv
<1> QED BY <1>1, Always, PTL

\* Nobody pushes the output but the runner in the runners map.
THEOREM NoForgottenPushHolds == Spec => []NoForgottenPush
<1>1. IInv => NoForgottenPush
  BY DEF IInv, NoForgottenPush, Sane, Born
<1> QED BY <1>1, Always, PTL

LEMMA PromiseStep == ASSUME IInv, IInv', AllMove, NEW p \in Runner PROVE Promise!PushStep(p)
<1>1. Moves(runner[p], runner'[p])
  BY DEF AllMove
<1>2. push[p] = Seen(runner[p]) /\ push'[p] = Seen(runner'[p])
  BY DEF push, Seen
<1>3. /\ Sane(runner[p]) /\ Sane(runner'[p])
      /\ runner[p].pushes \in 0..MaxRestarts + 1
  BY DEF IInv, TypeOK, RunnerTypeOK, Fields
<1>4. CASE runner'[p].stopped
  <2>1. push'[p] = "over" /\ runner'[p].pushes = 0
    BY <1>2, <1>3, <1>4 DEF Seen, Sane
  <2> QED BY <2>1 DEF Promise!PushStep, Promise!GiveUp, Promise!Becomes
<1>5. CASE ~runner'[p].stopped
  BY <1>1, <1>2, <1>3, <1>5 DEF Moves, Promise!PushStep, Promise!Connect, Promise!Confirm,
     Promise!Settle, Promise!Break, Promise!Rest, Promise!Becomes
<1> QED BY <1>4, <1>5

\* Every runner makes the push that PushLifecycle promises: at most
\* maxRestarts + 1 connections between two stable runs, one after the other,
\* and none after its end.
THEOREM PushSpecHolds == Spec => PushSpec
<1>1. Init => Promise!PushInit
  BY Unborn DEF Init, RunnerInit, Promise!PushInit, push
<1>2. IInv /\ [Next]_vars => [\A p \in Runner : Promise!PushStep(p)]_<<push, [r \in Runner |-> runner[r].pushes]>>
  <2>1. SUFFICES ASSUME IInv, [Next]_vars
                 PROVE  \A p \in Runner : Promise!PushStep(p)
    OBVIOUS
  <2>2. IInv' /\ AllMove
    BY <2>1, StepKeeps
  <2> QED BY <2>1, <2>2, PromiseStep
<1> QED BY <1>1, <1>2, Always, PTL DEF Spec, PushSpec, Promise!PushSpec

=============================================================================
