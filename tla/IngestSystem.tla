----------------------------- MODULE IngestSystem -----------------------------
(***************************************************************************)
(* Ingest as a whole: the RTMP workers, the session coordinator            *)
(* (server/coordinator.js, steps 2 to 4 of its tick), owners who ask for a *)
(* session to end, and time.                                               *)
(*                                                                         *)
(* The coordinator reads a list, then works through it with one statement  *)
(* or transaction per entry, and everybody else runs in between.  It keeps *)
(* nothing across ticks: a crash or a failed query only ends the tick.     *)
(***************************************************************************)
EXTENDS RtmpIngest

vars == <<worker, session, told, process, conn, faults, incidents, coordinator>>

\* step: which part of a tick is running.  todo: workers read from the table
\* and not yet dealt with.  doomed: sessions about to be failed.
Place == [step : {"idle", "liveness", "orphans", "generations"},
          todo : SUBSET Worker, doomed : SUBSET Session]
Idle == [step |-> "idle", todo |-> {}, doomed |-> {}]

TypeOK ==
  /\ StoreTypeOK
  /\ IngestTypeOK
  /\ coordinator \in Place

Init ==
  /\ StoreInit
  /\ IngestInit
  /\ coordinator = Idle

-----------------------------------------------------------------------------
(* The coordinator's tick                                                  *)

At(step) == coordinator.step = step

StartTick ==
  /\ At("idle")
  /\ coordinator' = [coordinator EXCEPT !.step = "liveness", !.todo = stale]
  /\ UNCHANGED <<store, ingest>>

\* lose(w), then the read of its open sessions.  The row is not checked for a
\* heartbeat that arrived since `stale` was read.
Lose(w) ==
  /\ At("liveness") /\ coordinator.doomed = {} /\ w \in coordinator.todo
  /\ lose(w)
  /\ coordinator' = [coordinator EXCEPT !.todo = @ \ {w},
                                        !.doomed = IF Alive(w) THEN ofWorker(w) ELSE {}]
  /\ UNCHANGED <<session, told, ingest>>

\* failSessionsOf, and the end of an orphan's check: one transition each.
FailDoomed(s) ==
  /\ s \in coordinator.doomed
  /\ transition(s, "failed")
  /\ coordinator' = [coordinator EXCEPT !.doomed = @ \ {s}]
  /\ UNCHANGED <<worker, ingest>>

\* The orphans: open sessions whose lease ran out and whose worker does not
\* beat.  The code looks at each one's worker just before failing it; a beat
\* that arrives in between spares the session, as one before the read does, and
\* one that arrives after the look does not: neither the lease nor the worker
\* is looked at again.  So all looks are taken here.
Beating(w) == Alive(w) /\ worker[w].age <= LeaseTicks
ReadOrphans ==
  /\ At("liveness") /\ coordinator.todo = {} /\ coordinator.doomed = {}
  /\ coordinator' = [coordinator EXCEPT !.step = "orphans",
       !.doomed = {s \in expiredLeases : ~Beating(session[s].worker)}]
  /\ UNCHANGED <<store, ingest>>

\* newestReady, then olderReady of its generation; with none the tick is over.
ReadGenerations ==
  /\ At("orphans") /\ coordinator.doomed = {}
  /\ LET older == UNION {olderReady(g) : g \in {w \in Worker : newestReady(w)}}
     IN  coordinator' = IF older = {} THEN Idle
                        ELSE [coordinator EXCEPT !.step = "generations", !.todo = older]
  /\ UNCHANGED <<store, ingest>>

DrainOlder(w) ==
  /\ At("generations") /\ w \in coordinator.todo
  /\ drain(w)
  /\ coordinator' = IF coordinator.todo = {w} THEN Idle
                    ELSE [coordinator EXCEPT !.todo = @ \ {w}]
  /\ UNCHANGED <<session, told, ingest>>

\* A query fails or the process restarts: the rest of the tick is skipped.
TickFails ==
  /\ ~At("idle") /\ Fault
  /\ coordinator' = Idle
  /\ UNCHANGED <<store, process, conn, incidents>>

Coordinator ==
  \/ StartTick \/ ReadOrphans \/ ReadGenerations
  \/ \E w \in Worker : Lose(w) \/ DrainOlder(w)
  \/ \E s \in Session : FailDoomed(s)

-----------------------------------------------------------------------------
(* Owners, time, and the whole                                             *)

RequestEnd(s) ==
  /\ Incident
  /\ requestEnd(s)
  /\ UNCHANGED <<process, conn, faults, coordinator>>

\* One tick of the clock every process reads.
Tick ==
  /\ worker' = [w \in Worker |->
       IF Alive(w) /\ worker[w].age <= LeaseTicks THEN [worker[w] EXCEPT !.age = @ + 1]
       ELSE worker[w]]
  /\ session' = [s \in Session |->
       IF Open(s) /\ session[s].lease > Past THEN [session[s] EXCEPT !.lease = @ - 1]
       ELSE session[s]]
  /\ UNCHANGED <<told, ingest, coordinator>>

\* What a worker owes: it finishes what it started.
WorkerDuty(w) ==
  BecomeReady(w) \/ DrainDeadline(w) \/ ExitWhenIdle(w) \/ WriteStop(w) \/ Exit(w)

WorkerStep(w) ==
  \/ Register(w) \/ Sigterm(w) \/ Beat(w) \/ Crash(w) \/ WorkerDuty(w)
  \/ \E s \in Session, d \in Definition : Publish(s, d, w)

\* What is owed to one publish: the database answers its calls, and an owner's
\* end request is picked up by a beat.
PublishDuty(s) ==
  \/ Admit(s) \/ RefusePublish(s) \/ StartPublishing(s) \/ Overtake(s)
  \/ FinishAbandoned(s)
  \/ GoLive(s) \/ FinishEnd(s)
  \/ \E w \in Worker : EndRequested(w, s)

PublishStep(s) == PublishDuty(s) \/ EncoderLeaves(s) \/ CallFails(s)

Next ==
  \/ Coordinator
  \/ TickFails
  \/ Tick
  \/ \E s \in Session : RequestEnd(s)
  \/ \E w \in Worker : WorkerStep(w)
  \/ \E s \in Session : PublishStep(s)

Spec == Init /\ [][Next]_vars

\* What the code's scheduling guarantees: the coordinator's timer and the
\* heartbeat timers keep firing, a process that decided to leave leaves,
\* database calls are answered, and time passes.  Encoders, owners, operators
\* and crashes owe nothing.
Fairness ==
  /\ WF_vars(Coordinator)
  /\ WF_vars(Tick)
  /\ \A w \in Worker :
       /\ WF_vars(Beat(w))
       /\ WF_vars(WorkerDuty(w))
  /\ \A s \in Session : WF_vars(PublishDuty(s))

FairSpec == Spec /\ Fairness

-----------------------------------------------------------------------------
(* Properties                                                              *)

\* "The heartbeat ... is also the lease renewal for every session the worker
\* owns" (runtime.js): no open session of a worker that still counts as alive
\* has less lease left than the worker has silence left.  So a lease that ran
\* out always means a worker that missed its beats, whatever was admitted,
\* drained or given up on in between.
LeaseFollowsHeartbeat ==
  \A s \in Session : Open(s) /\ Alive(session[s].worker) =>
    session[s].lease >= LeaseTicks - worker[session[s].worker].age

\* An admission that takes a stream over from another session never takes it
\* from a worker that beat within the lease.
TakeoverOnlyFromSilent ==
  [][\A s, t \in Session :
       /\ session[t].state = "none" /\ session'[t].state = "starting"
       /\ Open(s) /\ session'[s].state = "failed"
       => ~(Alive(session[s].worker) /\ worker[session[s].worker].age < LeaseTicks)]_vars

\* A record that is open with nothing behind it that will, or may yet, end it: no
\* admission being answered, no connection, no finish under way.  The beat renews
\* its lease for as long as its worker lives, and its stream stays locked.
Locked(s) ==
  /\ Open(s) /\ process[session[s].worker].pc # "gone"
  /\ conn[s].phase \notin {"admitted", "publishing", "ending"}

\* Whoever leaves and whenever, and whatever the coordinator, an owner or a drain
\* does to it meanwhile: a record is locked in no other step than one in which a
\* call of its own fails, or prePublish ignores it because its connection publishes
\* another session by then; and no such step locks a second record.
LocksCostFaults ==
  [][\A s \in Session : Locked(s)' /\ ~Locked(s) =>
       /\ faults' > faults \/ Overtaken(s)
       /\ \A t \in Session \ {s} : Locked(t)' => Locked(t)]_vars

\* A session whose process is gone is closed by the coordinator, through the
\* lost worker or through its lease, whichever step of a tick was interrupted:
\* "a crashed worker never locks a stream out" (sessions.js, admit).
DeadSessionsClose ==
  \A s \in Session :
    (Open(s) /\ process[session[s].worker].pc = "gone") ~> ~Open(s)

\* An owner's request to end a session is carried out, wherever its publish was.
EndRequestsHonoured ==
  \A s \in Session : (Open(s) /\ session[s].desired = "end") ~> ~Open(s)

\* A drain ends: the worker records its stop or is given up on, even when its
\* publishers never leave.
DrainCompletes ==
  \A w \in Worker : worker[w].state = "draining" ~> worker[w].state \in {"stopped", "lost"}

\* "A lost worker that wakes up drops its transports and exits" (README).
LostDropsTransports ==
  \A w \in Worker : worker[w].state = "lost" ~> publishers(w) = {}
=============================================================================
