----------------------------- MODULE OutputSystem -----------------------------
(***************************************************************************)
(* Restreaming as a whole: the outputs, the restream workers, what the     *)
(* coordinator's tick does for them (server/coordinator.js, steps 2, 4 and *)
(* 5), the owners' requests, and sessions that come and go.                *)
(***************************************************************************)
EXTENDS RestreamWorker

CONSTANT MaxRequests   \* bound: starts, stops and changes of destinations

ASSUME RequestAssumption == MaxRequests \in Nat

vars == <<session, dest, output, worker, process, runner, poll, reports, trouble,
          tick, request, requests>>

\* "lose"     between ticks, and step 2: silent workers
\* "release"  a worker was lost, its outputs are to be released
\* "auto"     todo: outputs to be inserted
\* "assign"   todo: outputs to be given to target, the newest ready worker
Place == [step : {"lose", "release", "auto", "assign"},
          of : Worker \cup {NoWorker}, todo : SUBSET Output]
Idle == [step |-> "lose", of |-> NoWorker, todo |-> {}]

TypeOK ==
  /\ StoreTypeOK
  /\ RestreamTypeOK
  /\ tick \in Place
  /\ request \in [Output -> {"none", "start", "stop"}]
  /\ requests \in 0..MaxRequests

Init ==
  /\ StoreInit
  /\ RestreamInit
  /\ tick = Idle
  /\ request = [o \in Output |-> "none"]
  /\ requests = 0

-----------------------------------------------------------------------------
(* The coordinator's tick                                                  *)

At(step) == tick.step = step
Move(step, of, todo) == tick' = [step |-> step, of |-> of, todo |-> todo]

\* A worker has been silent for the length of a lease: it is gone, or
\* suspended, or cut off from the database.
Lose(w) ==
  /\ At("lose") /\ Alive(w)
  /\ IF process[w].pc = "gone" THEN Calm ELSE Trouble
  /\ worker' = [worker EXCEPT ![w] = "lost"]
  /\ Move("release", w, {})
  /\ UNCHANGED <<session, dest, output, restream, request, requests>>

ReleaseLost ==
  /\ At("release")
  /\ release(tick.of)
  /\ tick' = Idle
  /\ Calm /\ UNCHANGED <<session, dest, worker, restream, request, requests>>

\* ensureAutoOutputs: one read, then one insert for each, outside a transaction.
ReadAuto ==
  /\ At("lose")
  /\ Move("auto", NoWorker, {o \in Output : wantsAuto(o)})
  /\ Calm /\ UNCHANGED <<tables, restream, request, requests>>

\* An output inserted meanwhile (UNIQUE) or a destination deleted meanwhile
\* (foreign key) ends the tick.
InsertAuto(o) ==
  /\ At("auto") /\ o \in tick.todo
  /\ IF Exists(o) \/ dest[o] = "deleted"
     THEN tick' = Idle /\ UNCHANGED output
     ELSE /\ Update(o, newRow)
          /\ Move("auto", NoWorker, tick.todo \ {o})
  /\ Calm /\ UNCHANGED <<session, dest, worker, restream, request, requests>>

\* newestReady and pendingUnassigned; with no worker ready there is nothing to assign.
newestReady == {w \in Worker : worker[w] = "ready" /\ \A v \in Worker : worker[v] = "ready" => v <= w}
ReadPending ==
  /\ At("auto") /\ tick.todo = {}
  /\ IF newestReady = {} THEN Move("assign", NoWorker, {})
     ELSE \E w \in newestReady : Move("assign", w, pendingUnassigned)
  /\ Calm /\ UNCHANGED <<tables, restream, request, requests>>

Assign(o) ==
  /\ At("assign") /\ o \in tick.todo
  /\ assign(o, tick.of)
  /\ Move("assign", tick.of, tick.todo \ {o})
  /\ Calm /\ UNCHANGED <<session, dest, worker, restream, request, requests>>

StopOrphans ==
  /\ At("assign") /\ tick.todo = {}
  /\ stopOrphans
  /\ tick' = Idle
  /\ Calm /\ UNCHANGED <<session, dest, worker, restream, request, requests>>

\* A query fails, or the coordinator restarts: the rest of the tick is skipped.
TickFails ==
  /\ ~At("lose") /\ Trouble
  /\ tick' = Idle
  /\ UNCHANGED <<tables, restream, request, requests>>

Coordinator ==
  \/ ReleaseLost \/ ReadAuto \/ ReadPending \/ StopOrphans
  \/ \E o \in Output : InsertAuto(o) \/ Assign(o)

\* Step 4 for every ready worker but the newest, or a SIGTERM of any worker.
Drain(w) ==
  /\ worker[w] = "ready"
  /\ worker' = [worker EXCEPT ![w] = "draining"]
  /\ Calm /\ UNCHANGED <<session, dest, output, restream, coordination>>

\* The deadline comes a day after the drain began: no assignment of a tick that
\* took the worker for ready is still on its way.
Deadline(w) == tick.of # w /\ HandOver(w)

-----------------------------------------------------------------------------
(* Owners (server/api/v1.js) and sessions                                  *)

Ask(o, what) == request' = [request EXCEPT ![o] = what]
NewRequest(o) == request[o] = "none" /\ requests < MaxRequests /\ requests' = requests + 1

\* startDestination: the checks and the session it finds, then the transaction.
StartRequest(o) ==
  /\ NewRequest(o) /\ startable(o)
  /\ Ask(o, "start")
  /\ Calm /\ UNCHANGED <<tables, restream, tick>>

StartCommits(o) ==
  /\ request[o] = "start"
  /\ startRow(o)
  /\ Ask(o, "none")
  /\ Calm /\ UNCHANGED <<session, dest, worker, restream, tick, requests>>

\* stopDestination: two statements, outside a transaction.
StopRequest(o) ==
  /\ NewRequest(o) /\ dest[o] # "deleted"
  /\ stopOpen(o)
  /\ Ask(o, "stop")
  /\ Calm /\ UNCHANGED <<session, dest, worker, restream, tick>>

StopPending(o) ==
  /\ request[o] = "stop"
  /\ Ask(o, "none")
  /\ \/ stopPending(o) /\ Calm
     \/ Trouble /\ UNCHANGED output
  /\ UNCHANGED <<session, dest, worker, restream, tick, requests>>

\* deleteDestination.  With an open output that somebody has it throws inside
\* its transaction, which rolls back the stop the transaction had asked for: no
\* step at all.
Delete(o) ==
  /\ dest[o] # "deleted"
  /\ ~(Open(o) /\ Assigned(o))
  /\ deleteRow(o)
  /\ Calm /\ UNCHANGED <<session, worker, restream, tick, request, requests>>

\* updateDestination, and the failure cooldown that comes and goes.
Change(o) ==
  /\ dest[o] # "deleted" /\ requests < MaxRequests /\ requests' = requests + 1
  /\ dest' \in {[dest EXCEPT ![o] = d] : d \in DestState \ {"deleted", dest[o]}}
  /\ Calm /\ UNCHANGED <<session, output, worker, restream, tick, request>>

SessionLive(o) ==
  /\ session[o] = "idle"
  /\ session' = [session EXCEPT ![o] = "live"]
  /\ Calm /\ UNCHANGED <<dest, output, worker, restream, coordination>>

SessionOver(o) ==
  /\ session[o] = "live"
  /\ sessionOver(o)
  /\ Calm /\ UNCHANGED <<dest, worker, restream, coordination>>

-----------------------------------------------------------------------------

\* What a worker owes on its way in and out.
WorkerDuty(w) ==
  Deadline(w) \/ HandOverRelease(w) \/ WriteStop(w) \/ ReleaseAndGo(w)

RequestDuty(o) == StartCommits(o) \/ StopPending(o)

Next ==
  \/ Coordinator \/ TickFails
  \/ \E w \in Worker : \/ Lose(w) \/ Drain(w)
                       \/ Start(w) \/ Beat(w) \/ WorkerDuty(w) \/ Crash(w)
                       \/ PollStep(w) \/ PollFails(w)
  \/ \E w \in Worker, o \in Output : RunnerReports(w, o) \/ RunnerEnds(w, o)
  \/ \E r \in reports : Commit(r)
  \/ \E o \in Output : \/ RequestDuty(o) \/ StartRequest(o) \/ StopRequest(o) \/ Delete(o) \/ Change(o)
                       \/ SessionLive(o) \/ SessionOver(o)

Spec == Init /\ [][Next]_vars

\* The coordinator's timer, the heartbeat and the poll timers keep firing;
\* processes that leave get to their exit, requests to their end, and calls are
\* answered.  A worker that is gone is silent for good, so one of the ticks that
\* look finds it stale: that takes strong fairness, since a tick is not always
\* at the place where it looks.
Fairness ==
  /\ WF_vars(Coordinator)
  /\ WF_vars(\E r \in reports : Commit(r))
  /\ \A w \in Worker :
       /\ SF_vars(process[w].pc = "gone" /\ Lose(w))
       /\ WF_vars(Beat(w) \/ WorkerDuty(w))
       /\ WF_vars(PollStep(w))
  /\ \A o \in Output : WF_vars(RequestDuty(o))

FairSpec == Spec /\ Fairness

-----------------------------------------------------------------------------
(* Properties                                                              *)

\* Every step is a step of OutputLifecycle: a stop is not forgotten by a release,
\* a hand-over or a worker that is given up on (outputs.js, release), an output
\* changes hands only through nobody's (assign), an auto-start or a start that
\* was looked up before the session ended or the destination went brings nothing
\* to life that never was on air or is deleted.
Lifecycle == INSTANCE OutputLifecycle WITH
  Holder <- Worker, Nobody <- NoWorker,
  show <- session,
  gone <- [o \in Output |-> dest[o] = "deleted"],
  claimed <- [o \in Output |-> request[o] = "start"],
  push <- [o \in Output |-> output[o].state],
  wanted <- [o \in Output |-> output[o].desired = "run"],
  holder <- [o \in Output |-> output[o].worker]
LifecycleSpec == Lifecycle!Spec

\* "the report only lands while the output is still assigned to that worker"
\* (outputs.js, report): whatever was released, unassigned, handed over or
\* started again while reports were on their way, an output that is not pending
\* any more is somebody's.  (Nobody would ever pick it up: only pending outputs
\* are assigned.)
RunIsOwned == \A o \in Output : output[o].state = "running" => Assigned(o)

\* A stop that an owner or the end of a session asked for is reached, whether
\* the output waits, runs, is being handed over, or its worker died or was
\* given up on; unless it is wanted again.
StopReached ==
  \A o \in Output : (Open(o) /\ output[o].desired = "stop") ~> (~Open(o) \/ output[o].desired = "run")

\* ffmpeg does not outlive its order: a runner whose output is another worker's
\* by now, or nobody's, or over, stops.
RunnerFollows ==
  \A w \in Worker, o \in Output :
    (runner[w][o] = "going" /\ (output[o].worker # w \/ ~Open(o)))
      ~> (runner[w][o] # "going" \/ (output[o].worker = w /\ Open(o)))

\* "Then the process exits" (restream-worker.js): a drain ends, even if the
\* session and its outputs go on for ever.
DrainEnds == \A w \in Worker : worker[w] = "draining" ~> worker[w] \in Given
=============================================================================
