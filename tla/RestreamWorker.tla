---------------------------- MODULE RestreamWorker ----------------------------
(***************************************************************************)
(* The restream workers: workers/restream-worker.js on workers/runtime.js. *)
(*                                                                         *)
(* A worker polls the outputs it was given and keeps a runner for each one *)
(* it runs.  One action per stretch between two awaits.  The reports of    *)
(* runners are transactions nobody waits for: `reports` holds those not    *)
(* committed yet.  What happens inside a runner is left open here: while   *)
(* it goes it reports what it likes, and it may end.                       *)
(***************************************************************************)
EXTENDS OutputStore

CONSTANTS NoOutput,    \* no output is being prepared
          MaxReports,  \* bound: reports in flight; one more when a poll stops a runner
          MaxTrouble   \* bound: crashes, failed calls, workers lost while they run

ASSUME RestreamAssumption == NoOutput \notin Output /\ MaxReports \in Nat /\ MaxTrouble \in Nat

VARIABLES process,  \* Worker -> the process
          runner,   \* Worker -> the runners map: going, ended but still in the map, or none
          poll,     \* Worker -> the poll in progress
          reports,  \* what runners reported and is not in the table yet
          trouble,
          tick, request, requests  \* the coordinator and the owners (see OutputSystem)

restream == <<process, runner, poll, reports>>
coordination == <<tick, request, requests>>

\* draining: what the last beat said.  handed: the hand-over at the drain deadline.
\* "stopping"   exitWhenIdle ran, the stopped row is to be written
\* "releasing"  onExit: the outputs are to be released
Process == [pc : {"none", "up", "stopping", "releasing", "gone"},
            draining : BOOLEAN, handed : {"no", "releasing", "done"}]
Gone == [pc |-> "gone", draining |-> FALSE, handed |-> "no"]

\* todo: rows read and not yet looked at; run: those of them that were to run
\* when they were read; preparing: the output whose source is looked up.
Poll == [on : BOOLEAN, todo : SUBSET Output, run : SUBSET Output, seen : SUBSET Output,
         preparing : Output \cup {NoOutput}]
NoPoll == [on |-> FALSE, todo |-> {}, run |-> {}, seen |-> {}, preparing |-> NoOutput]
NoRunners == [o \in Output |-> "none"]

RestreamTypeOK ==
  /\ process \in [Worker -> Process]
  /\ runner \in [Worker -> [Output -> {"none", "going", "ended"}]]
  /\ poll \in [Worker -> Poll]
  /\ reports \subseteq [by : Worker, of : Output, to : Report]
  /\ trouble \in 0..MaxTrouble

RestreamInit ==
  /\ process = [w \in Worker |-> [pc |-> "none", draining |-> FALSE, handed |-> "no"]]
  /\ runner = [w \in Worker |-> NoRunners]
  /\ poll = [w \in Worker |-> NoPoll]
  /\ reports = {}
  /\ trouble = 0

Running(w) == process[w].pc \in {"up", "stopping", "releasing"}
Up(w) == process[w].pc = "up"
runners(w) == {o \in Output : runner[w][o] # "none"}
Going(w) == {o \in Output : runner[w][o] = "going"}
Told(w, outs, to) == reports \cup [by : {w}, of : outs, to : {to}]

Trouble == trouble < MaxTrouble /\ trouble' = trouble + 1
Calm == UNCHANGED trouble

-----------------------------------------------------------------------------
(* The runtime                                                             *)

\* register() and ready(): nothing is assigned to a worker that is starting.
Start(w) ==
  /\ worker[w] = "none" /\ \A v \in 1..w - 1 : worker[v] # "none"
  /\ worker' = [worker EXCEPT ![w] = "ready"]
  /\ process' = [process EXCEPT ![w].pc = "up"]
  /\ Calm /\ UNCHANGED <<session, dest, output, runner, poll, reports, coordination>>

\* The process is gone: its ffmpeg processes are killed, and so are the reports
\* that were on their way.
Vanish(w) ==
  /\ process' = [process EXCEPT ![w] = Gone]
  /\ runner' = [runner EXCEPT ![w] = NoRunners]
  /\ poll' = [poll EXCEPT ![w] = NoPoll]
  /\ reports' = {r \in reports : r.by # w}

\* onLost stops the runners, and the process exits before anything they report
\* can commit.
BeatLost(w) ==
  /\ Up(w) /\ worker[w] = "lost"
  /\ Vanish(w)
  /\ Calm /\ UNCHANGED <<tables, coordination>>

\* exitWhenIdle: with no runner left the process starts to leave.
Leaving(w, left) == IF Up(w) /\ left = {} THEN "stopping" ELSE process[w].pc

BeatDraining(w) ==
  /\ Up(w) /\ worker[w] = "draining"
  /\ process' = [process EXCEPT ![w].draining = TRUE, ![w].pc = Leaving(w, runners(w))]
  /\ Calm /\ UNCHANGED <<tables, runner, poll, reports, coordination>>

Beat(w) == BeatLost(w) \/ BeatDraining(w)

\* Mutant of HandOver: the deadline is noted, and nothing is stopped or released.
HandOverGoing(w) ==
  /\ Up(w) /\ process[w].draining /\ process[w].handed = "no"
  /\ poll[w].preparing = NoOutput
  /\ process' = [process EXCEPT ![w].handed = "done"]
  /\ Calm /\ UNCHANGED <<tables, runner, poll, reports, coordination>>

\* The drain deadline (a day after the drain began, so nothing prepared before
\* it is still on its way): the runners are killed without a word.
HandOver(w) ==
  /\ Up(w) /\ process[w].draining /\ process[w].handed = "no"
  /\ poll[w].preparing = NoOutput
  /\ process' = [process EXCEPT ![w].handed = "releasing"]
  /\ runner' = [runner EXCEPT ![w] = NoRunners]
  /\ Calm /\ UNCHANGED <<tables, poll, reports, coordination>>

HandOverRelease(w) ==
  /\ Running(w) /\ process[w].handed = "releasing"
  /\ process' = [process EXCEPT ![w].handed = "done"]
  /\ \/ release(w) /\ Calm
     \/ Trouble /\ UNCHANGED output
  /\ UNCHANGED <<session, dest, worker, runner, poll, reports, coordination>>

\* The stopped row is written first; if that fails the process leaves all the same.
WriteStop(w) ==
  /\ process[w].pc = "stopping"
  /\ process' = [process EXCEPT ![w].pc = "releasing"]
  /\ \/ Calm /\ worker' = [worker EXCEPT ![w] = IF Alive(w) THEN "stopped" ELSE @]
     \/ Trouble /\ UNCHANGED worker
  /\ UNCHANGED <<session, dest, output, runner, poll, reports, coordination>>

ReleaseAndGo(w) ==
  /\ process[w].pc = "releasing"
  /\ Vanish(w)
  /\ \/ release(w) /\ Calm
     \/ Trouble /\ UNCHANGED output
  /\ UNCHANGED <<session, dest, worker, coordination>>

Crash(w) ==
  /\ process[w].pc \notin {"none", "gone"}
  /\ Trouble
  /\ Vanish(w)
  /\ UNCHANGED <<tables, coordination>>

-----------------------------------------------------------------------------
(* A poll                                                                  *)

\* A poll that finds no row and has no runner does nothing a beat does not do.
PollRead(w) ==
  /\ process[w].pc \in {"up", "stopping"} /\ ~poll[w].on
  /\ forWorker(w) \cup runners(w) # {}
  /\ poll' = [poll EXCEPT ![w] =
       [on |-> TRUE, todo |-> forWorker(w), seen |-> {}, preparing |-> NoOutput,
        run |-> {o \in forWorker(w) : output[o].desired = "run"}]]
  /\ Calm /\ UNCHANGED <<tables, process, runner, reports, coordination>>

\* One row: its runner and its session are looked up (what is desired was read
\* with the row) ...
Row1(w, o) == o \in poll[w].todo /\ poll[w].preparing = NoOutput
shouldRun(w, o) == o \in poll[w].run /\ session[o] = "live"
Next1(w, o) == [poll[w] EXCEPT !.todo = @ \ {o}, !.run = @ \ {o}, !.seen = @ \cup {o}]

\* ... it is not to run: its runner stops and reports so, unless it had ended;
\* with no runner the poll itself writes that it stopped.
PollStop(w, o) ==
  /\ Row1(w, o) /\ ~shouldRun(w, o)
  /\ poll' = [poll EXCEPT ![w] = Next1(w, o)]
  /\ runner' = [runner EXCEPT ![w][o] = "none"]
  /\ reports' = Told(w, {o} \cap Going(w), "ended")
  /\ IF o \in runners(w) THEN UNCHANGED output ELSE report(o, "ended", w)
  /\ Calm /\ UNCHANGED <<session, dest, worker, process, coordination>>

\* ... it runs, or it ended: the runner that ended leaves the map, and a later
\* poll sees whether the output is still open.
PollKeep(w, o) ==
  /\ Row1(w, o) /\ shouldRun(w, o) /\ o \in runners(w)
  /\ poll' = [poll EXCEPT ![w] = Next1(w, o)]
  /\ runner' = [runner EXCEPT ![w][o] = IF @ = "ended" THEN "none" ELSE @]
  /\ Calm /\ UNCHANGED <<tables, process, reports, coordination>>

\* ... a draining generation starts nothing new.
PollUnassign(w, o) ==
  /\ Row1(w, o) /\ shouldRun(w, o) /\ o \notin runners(w) /\ process[w].draining
  /\ unassign(o)
  /\ poll' = [poll EXCEPT ![w].todo = @ \ {o}, ![w].run = @ \ {o}]
  /\ Calm /\ UNCHANGED <<session, dest, worker, process, runner, reports, coordination>>

\* ... it is to start: its source is looked up,
PollPrepare(w, o) ==
  /\ Row1(w, o) /\ shouldRun(w, o) /\ o \notin runners(w) /\ ~process[w].draining
  /\ poll' = [poll EXCEPT ![w] = [Next1(w, o) EXCEPT !.preparing = o]]
  /\ Calm /\ UNCHANGED <<tables, process, runner, reports, coordination>>

\* and is missing, or has to settle first, or the runner starts.
PollPrepared(w, o) ==
  /\ poll[w].preparing = o /\ o \in Output
  /\ poll' = [poll EXCEPT ![w].preparing = NoOutput]
  /\ \/ report(o, "ended", w) /\ UNCHANGED runner
     \/ UNCHANGED <<output, runner>>
     \/ runner' = [runner EXCEPT ![w][o] = "going"] /\ UNCHANGED output
  /\ Calm /\ UNCHANGED <<session, dest, worker, process, reports, coordination>>

\* Mutant of PollEnd: a runner whose output is not among the rows goes on.
PollEndSeen(w) ==
  /\ poll[w].on /\ poll[w].todo = {} /\ poll[w].preparing = NoOutput
  /\ poll' = [poll EXCEPT ![w] = NoPoll]
  /\ runner' = [runner EXCEPT ![w] = [o \in Output |->
       IF o \in Going(w) THEN "going" ELSE "none"]]
  /\ process' = [process EXCEPT ![w].pc = IF process[w].draining THEN Leaving(w, Going(w)) ELSE @]
  /\ Calm /\ UNCHANGED <<tables, reports, coordination>>

\* After the rows: runners that are not among them stop, those that ended leave
\* the map, and a worker that drains leaves when none is left.
PollEnd(w) ==
  /\ poll[w].on /\ poll[w].todo = {} /\ poll[w].preparing = NoOutput
  /\ poll' = [poll EXCEPT ![w] = NoPoll]
  /\ LET kept == Going(w) \cap poll[w].seen IN
     /\ runner' = [runner EXCEPT ![w] = [o \in Output |-> IF o \in kept THEN "going" ELSE "none"]]
     /\ reports' = Told(w, Going(w) \ kept, "ended")
     /\ process' = [process EXCEPT ![w].pc = IF process[w].draining THEN Leaving(w, kept) ELSE @]
  /\ Calm /\ UNCHANGED <<tables, coordination>>

\* A call of the poll fails: it is logged, and the next poll starts afresh.
PollFails(w) ==
  /\ poll[w].on /\ Trouble
  /\ poll' = [poll EXCEPT ![w] = NoPoll]
  /\ UNCHANGED <<tables, process, runner, reports, coordination>>

PollStep(w) ==
  \/ PollRead(w) \/ PollEnd(w)
  \/ \E o \in Output : \/ PollStop(w, o) \/ PollKeep(w, o) \/ PollUnassign(w, o)
                       \/ PollPrepare(w, o) \/ PollPrepared(w, o)

-----------------------------------------------------------------------------
(* Runners (restream/output-runner.js), as far as the table sees them      *)

RunnerReports(w, o) ==
  /\ o \in Going(w)
  /\ Cardinality(reports) < MaxReports
  /\ reports' = Told(w, {o}, "running")
  /\ Calm /\ UNCHANGED <<tables, process, runner, poll, coordination>>

\* The source ended, the destination was disabled, or the circuit broke.
RunnerEnds(w, o) ==
  /\ o \in Going(w)
  /\ Cardinality(reports) < MaxReports
  /\ runner' = [runner EXCEPT ![w][o] = "ended"]
  /\ reports' = Told(w, {o}, "ended")
  /\ Calm /\ UNCHANGED <<tables, process, poll, coordination>>

\* A report commits, in no particular order, or fails and is logged.
Commit(r) ==
  /\ r \in reports
  /\ reports' = reports \ {r}
  /\ \/ report(r.of, r.to, r.by) /\ Calm
     \/ Trouble /\ UNCHANGED output
  /\ UNCHANGED <<session, dest, worker, process, runner, poll, coordination>>

=============================================================================
