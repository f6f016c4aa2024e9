-------------------------- MODULE IngestSystemProofs --------------------------
(***************************************************************************)
(* What IngestSystem promises for every number of streams, sessions and    *)
(* worker generations, every lease length and any amount of trouble.       *)
(***************************************************************************)
EXTENDS IngestSystem, IngestStoreProofs

USE StoreAssumption, WorkerAssumption DEF StoreAssumption, WorkerAssumption

-----------------------------------------------------------------------------
(* Types                                                                   *)

LEMMA TickStores ==
  ASSUME StoreTypeOK, Tick
  PROVE  StoreTypeOK'
<1>1. worker' \in [Worker -> WorkerRow]
  <2>1. ASSUME NEW w \in Worker, worker[w].age <= LeaseTicks
        PROVE  [worker[w] EXCEPT !.age = @ + 1] \in WorkerRow
    <3>1. worker[w].age + 1 \in Age
      BY <2>1 DEF StoreTypeOK, WorkerRow, Age
    <3>2. QED BY <3>1 DEF StoreTypeOK, WorkerRow
  <2>2. QED BY <2>1 DEF StoreTypeOK, Tick
<1>2. session' \in [Session -> SessionRow]
  <2>1. ASSUME NEW s \in Session, session[s].lease > Past
        PROVE  [session[s] EXCEPT !.lease = @ - 1] \in SessionRow
    <3>1. session[s].lease - 1 \in Lease
      BY <2>1 DEF StoreTypeOK, SessionRow, Lease, Past
    <3>2. QED BY <3>1 DEF StoreTypeOK, SessionRow
  <2>2. QED BY <2>1 DEF StoreTypeOK, Tick
<1>3. QED BY <1>1, <1>2 DEF StoreTypeOK, Tick

-----------------------------------------------------------------------------
(* Connections and processes                                               *)

LEMMA ConnTypes ==
  ASSUME conn \in [Session -> Conn]
  PROVE  /\ NoConn \in Conn
         /\ \A closing \in SUBSET Session : Shut(closing) \in [Session -> Conn]
         /\ \A s \in Session : Rejected(s) \in [Session -> Conn]
         /\ \A w \in Worker : Dropped(w) \in [Session -> Conn]
         /\ \A w \in Worker : Torn(w) \in [Session -> Conn]
<1>0. {} \in Socket
  BY DEF Socket
<1>1. NoConn \in Conn
  BY <1>0 DEF NoConn, Conn
<1>2. \A s \in Session : Cut(conn[s]) \in Conn
  BY <1>0 DEF Cut, Conn
<1>3. \A s \in Session :
        [conn[s] EXCEPT !.phase = "done", !.here = FALSE, !.socket = {}, !.goingLive = FALSE]
          \in Conn
  BY <1>0 DEF Conn
<1>4. \A closing \in SUBSET Session : Shut(closing) \in [Session -> Conn]
  BY <1>2 DEF Shut
<1>5. \A s \in Session : Rejected(s) \in [Session -> Conn]
  BY <1>1, <1>4 DEF Rejected
<1>6. \A w \in Worker : publishers(w) \in SUBSET Session
  BY DEF publishers
<1>7. QED BY <1>1, <1>3, <1>4, <1>5, <1>6 DEF Dropped, Torn

\* A publish enters the admission, on its own socket or on another's.
LEMMA PublishEnters ==
  ASSUME conn \in [Session -> Conn], NEW s \in Session, NEW d \in Definition, NEW w \in Worker,
         Publish(s, d, w)
  PROVE  \E socket \in Socket :
           conn' = [conn EXCEPT ![s] = [phase |-> "admitting", definition |-> d, worker |-> w,
                                        socket |-> socket, here |-> TRUE, goingLive |-> FALSE]]
<1>1. {s} \in Socket /\ \A t \in inFlight(w) : conn[t].socket \in Socket
  BY DEF Socket, Conn, inFlight
<1>2. QED BY <1>1 DEF Publish

\* Where a handler may leave a connection.
LEMMA PhaseTypes ==
  ASSUME NEW c \in Conn,
         NEW p \in {"idle", "admitting", "admitted", "publishing", "ending", "overtaken", "done"}
  PROVE  /\ [c EXCEPT !.phase = p] \in Conn
         /\ [c EXCEPT !.phase = p, !.here = FALSE] \in Conn
         /\ [c EXCEPT !.here = FALSE] \in Conn
         /\ [c EXCEPT !.goingLive = FALSE] \in Conn
         /\ [c EXCEPT !.phase = p, !.here = FALSE, !.goingLive = TRUE] \in Conn
BY DEF Conn

LEMMA TroubleTypes ==
  ASSUME faults \in 0..MaxTrouble, incidents \in 0..MaxTrouble
  PROVE  /\ Fault => faults' \in 0..MaxTrouble
         /\ Incident => incidents' \in 0..MaxTrouble
BY DEF Fault, Incident

LEMMA ProcessTypes ==
  ASSUME NEW p \in Process,
         NEW pc \in {"off", "starting", "up", "exiting", "gone"},
         NEW me \in {"starting", "ready", "draining", "lost"}
  PROVE  /\ [p EXCEPT !.pc = pc] \in Process
         /\ [p EXCEPT !.me = me] \in Process
         /\ [p EXCEPT !.pc = pc, !.me = me] \in Process
         /\ [p EXCEPT !.me = me, !.pc = pc] \in Process
         /\ [p EXCEPT !.deadlineHandled = TRUE] \in Process
         /\ Leaving(me) \in Process /\ Gone \in Process
BY DEF Process, Leaving, Gone

LEMMA WorkerTypes ==
  ASSUME TypeOK, NEW w \in Worker, WorkerStep(w)
  PROVE  TypeOK'
<1> USE DEF TypeOK, IngestTypeOK
<1>0. process[w] \in Process /\ process[w].me \in {"starting", "ready", "draining", "lost"}
  BY DEF Process
<1>1. CASE Register(w)
  <2>1. StoreTypeOK'
    BY <1>1, RegisterType DEF Register, StoreTypeOK
  <2>2. process' \in [Worker -> Process]
    BY <1>1, <1>0, ProcessTypes DEF Register
  <2>3. QED BY <1>1, <2>1, <2>2 DEF Register, trouble
<1>2. CASE BecomeReady(w)
  <2>1. StoreTypeOK'
    BY <1>2, RegisterType DEF BecomeReady, StoreTypeOK
  <2>2. process' \in [Worker -> Process]
    <3>1. CASE worker[w].state = "starting"
      BY <1>2, <1>0, <3>1, ProcessTypes DEF BecomeReady
    <3>2. CASE worker[w].state # "starting"
      BY <1>2, <1>0, <3>2, ProcessTypes DEF BecomeReady
    <3>3. QED BY <3>1, <3>2
  <2>3. QED BY <1>2, <2>1, <2>2 DEF BecomeReady, trouble
<1>3. CASE Sigterm(w)
  BY <1>3, SetWorkerType, TroubleTypes DEF Sigterm, drain, StoreTypeOK
<1>4. CASE Beat(w)
  <2>1. StoreTypeOK'
    BY <1>4, HeartbeatStores DEF Beat
  <2>2. process' \in [Worker -> Process]
    <3>1. PICK me \in {"starting", "ready", "draining", "lost"} :
            Alive(w) => process' = [process EXCEPT ![w].me = me]
      BY <1>4, <1>0 DEF Beat, Alive, ALIVE
    <3>2. CASE Alive(w)
      <4>1. process \in [Worker -> Process] /\ [process[w] EXCEPT !.me = me] \in Process
        BY <1>0, ProcessTypes
      <4>2. process' = [process EXCEPT ![w].me = me]
        BY <3>1, <3>2
      <4>3. QED BY <4>1, <4>2
    <3>3. CASE ~Alive(w)
      BY <1>4, <1>0, <3>3, ProcessTypes DEF Beat
    <3>4. QED BY <3>2, <3>3
  <2>3. QED BY <1>4, <2>1, <2>2, ConnTypes DEF Beat, trouble
<1>5. CASE Crash(w)
  BY <1>5, ProcessTypes, ConnTypes, TroubleTypes DEF Crash, store, StoreTypeOK
<1>6. CASE DrainDeadline(w)
  BY <1>6, ProcessTypes, ConnTypes DEF DrainDeadline, store, StoreTypeOK, trouble
<1>7. CASE ExitWhenIdle(w)
  BY <1>7, ProcessTypes DEF ExitWhenIdle, store, StoreTypeOK, trouble
<1>8. CASE WriteStop(w)
  BY <1>8, SetWorkerType DEF WriteStop, stop, ingest, StoreTypeOK, trouble
<1>9. CASE Exit(w)
  BY <1>9, ProcessTypes, ConnTypes DEF Exit, store, StoreTypeOK, trouble
<1>10. ASSUME NEW s \in Session, NEW d \in Definition, Publish(s, d, w)
       PROVE  TypeOK'
  <2>1. \A socket \in Socket :
          [phase |-> "admitting", definition |-> d, worker |-> w,
           socket |-> socket, here |-> TRUE, goingLive |-> FALSE] \in Conn
    BY DEF Conn
  <2>2. PICK socket \in Socket :
          conn' = [conn EXCEPT ![s] = [phase |-> "admitting", definition |-> d, worker |-> w,
                                       socket |-> socket, here |-> TRUE, goingLive |-> FALSE]]
    BY <1>10, PublishEnters
  <2>3. QED BY <1>10, <2>1, <2>2 DEF Publish, store, StoreTypeOK, trouble
<1>11. QED
  BY <1>1, <1>2, <1>3, <1>4, <1>5, <1>6, <1>7, <1>8, <1>9, <1>10 DEF WorkerStep, WorkerDuty

LEMMA PublishTypes ==
  ASSUME TypeOK, NEW s \in Session, PublishStep(s)
  PROVE  TypeOK'
<1> USE DEF TypeOK, IngestTypeOK
<1>0. conn[s] \in Conn /\ NoConn \in Conn
      /\ conn[s].definition \in Definition \cup {NoDefinition}
      /\ conn[s].worker \in Worker \cup {NoWorker}
  BY ConnTypes DEF Conn
<1>1. CASE Admit(s)
  BY <1>1, <1>0, AdmitStores, PhaseTypes DEF Admit, trouble
<1>2. CASE RefusePublish(s)
  BY <1>2, ConnTypes DEF RefusePublish, store, StoreTypeOK, trouble
<1>3. CASE StartPublishing(s)
  <2>1. [conn[s] EXCEPT !.phase = "publishing", !.here = FALSE, !.goingLive = TRUE] \in Conn
    BY <1>0, PhaseTypes
  <2>2. conn' \in [Session -> Conn]
    BY <1>3, <2>1 DEF StartPublishing
  <2>3. QED BY <1>3, <2>2 DEF StartPublishing, store, StoreTypeOK, trouble
<1>4. CASE FinishAbandoned(s)
  BY <1>4, <1>0, FinishStores, PhaseTypes DEF FinishAbandoned, trouble
<1>5. CASE GoLive(s)
  <2>1. StoreTypeOK'
    BY <1>5, TransitionStores DEF GoLive, STATES
  <2>2. PICK c \in [Session -> Conn] : conn' = [c EXCEPT ![s].goingLive = FALSE]
    BY <1>5, ConnTypes DEF GoLive
  <2>3. [c[s] EXCEPT !.goingLive = FALSE] \in Conn
    BY PhaseTypes
  <2>4. conn' \in [Session -> Conn]
    BY <2>2, <2>3
  <2>5. QED BY <1>5, <2>1, <2>4 DEF GoLive, trouble
<1>6. CASE FinishEnd(s)
  BY <1>6, <1>0, FinishStores, PhaseTypes DEF FinishEnd, trouble
<1>7. ASSUME NEW w \in Worker, EndRequested(w, s)
      PROVE  TypeOK'
  <2>1. CASE s \in publishers(w)
    BY <1>7, <2>1, ConnTypes DEF EndRequested, StoreTypeOK, trouble
  <2>2. CASE s \notin publishers(w)
    BY <1>7, <2>2, FinishStores DEF EndRequested, trouble
  <2>3. QED BY <2>1, <2>2
<1>8. CASE EncoderLeaves(s)
  BY <1>8, ConnTypes DEF EncoderLeaves, store, StoreTypeOK, trouble
<1>9. CASE CallFails(s)
  <2>1. conn' \in [Session -> Conn]
    BY <1>9, <1>0, PhaseTypes, ConnTypes DEF CallFails
  <2>2. QED BY <1>9, <2>1, TroubleTypes DEF CallFails, store, StoreTypeOK
<1>10. CASE Overtake(s)
  <2>1. [conn[s] EXCEPT !.phase = "overtaken", !.here = FALSE, !.socket = {}] \in Conn
    BY <1>0 DEF Conn, Socket
  <2> QED
    BY <1>10, <1>0, <2>1 DEF Overtake, store, StoreTypeOK, trouble
<1>11. QED
  BY <1>1, <1>2, <1>3, <1>4, <1>5, <1>6, <1>7, <1>8, <1>9, <1>10 DEF PublishStep, PublishDuty

-----------------------------------------------------------------------------
(* The coordinator, owners, time                                           *)

LEMMA PlaceType ==
  ASSUME coordinator \in Place,
         NEW step \in {"idle", "liveness", "orphans", "generations"},
         NEW todo \in SUBSET Worker, NEW doomed \in SUBSET Session
  PROVE  /\ Idle \in Place
         /\ [coordinator EXCEPT !.step = step, !.todo = todo] \in Place
         /\ [coordinator EXCEPT !.step = step, !.doomed = doomed] \in Place
         /\ [coordinator EXCEPT !.todo = todo, !.doomed = doomed] \in Place
         /\ [coordinator EXCEPT !.todo = todo] \in Place
         /\ [coordinator EXCEPT !.doomed = doomed] \in Place
BY DEF Place, Idle

LEMMA CoordinatorTypes ==
  ASSUME TypeOK, Coordinator \/ TickFails
  PROVE  TypeOK'
<1> USE DEF TypeOK
<1>0. /\ coordinator.todo \in SUBSET Worker /\ coordinator.doomed \in SUBSET Session
      /\ Idle \in Place
  BY DEF Place, Idle
<1>1. CASE StartTick
  BY <1>1, <1>0, PlaceType DEF StartTick, stale, store, StoreTypeOK, ingest, IngestTypeOK, trouble
<1>2. CASE ReadOrphans
  BY <1>2, <1>0, PlaceType
     DEF ReadOrphans, expiredLeases, store, StoreTypeOK, ingest, IngestTypeOK, trouble
<1>3. CASE ReadGenerations
  <2>1. UNION {olderReady(g) : g \in {w \in Worker : newestReady(w)}} \in SUBSET Worker
    BY DEF olderReady
  <2>2. coordinator' \in Place
    BY <1>3, <2>1, <1>0, PlaceType DEF ReadGenerations
  <2>3. QED
    BY <1>3, <2>2 DEF ReadGenerations, store, StoreTypeOK, ingest, IngestTypeOK, trouble
<1>4. ASSUME NEW w \in Worker, Lose(w)
      PROVE  TypeOK'
  <2>1. worker' \in [Worker -> WorkerRow]
    BY <1>4, SetWorkerType DEF Lose, lose, StoreTypeOK
  <2>2. coordinator' \in Place
    <3>1. coordinator.todo \ {w} \in SUBSET Worker
          /\ (IF Alive(w) THEN ofWorker(w) ELSE {}) \in SUBSET Session
      BY <1>0 DEF ofWorker
    <3>2. QED BY <1>4, <3>1, PlaceType DEF Lose
  <2>3. QED BY <1>4, <2>1, <2>2 DEF Lose, StoreTypeOK, ingest, IngestTypeOK, trouble
<1>5. ASSUME NEW w \in Worker, DrainOlder(w)
      PROVE  TypeOK'
  <2>1. worker' \in [Worker -> WorkerRow]
    BY <1>5, SetWorkerType DEF DrainOlder, drain, StoreTypeOK
  <2>2. coordinator' \in Place
    <3>1. coordinator.todo \ {w} \in SUBSET Worker
      BY <1>0
    <3>2. QED BY <1>5, <1>0, <3>1, PlaceType DEF DrainOlder
  <2>3. QED BY <1>5, <2>1, <2>2 DEF DrainOlder, StoreTypeOK, ingest, IngestTypeOK, trouble
<1>6. ASSUME NEW s \in Session, FailDoomed(s)
      PROVE  TypeOK'
  <2>1. StoreTypeOK'
    BY <1>6, TransitionStores DEF FailDoomed, STATES
  <2>2. coordinator' \in Place
    <3>1. coordinator.doomed \ {s} \in SUBSET Session
      BY <1>0
    <3>2. QED BY <1>6, <3>1, PlaceType DEF FailDoomed
  <2>3. QED BY <1>6, <2>1, <2>2 DEF FailDoomed, ingest, IngestTypeOK, trouble
<1>7. CASE TickFails
  BY <1>7, <1>0, TroubleTypes DEF TickFails, store, StoreTypeOK, IngestTypeOK
<1>8. QED BY <1>1, <1>2, <1>3, <1>4, <1>5, <1>6, <1>7 DEF Coordinator

LEMMA RequestTypes ==
  ASSUME TypeOK, NEW s \in Session, RequestEnd(s)
  PROVE  TypeOK'
<1>1. [session[s] EXCEPT !.desired = "end"] \in SessionRow
  BY DEF TypeOK, StoreTypeOK, SessionRow
<1>2. QED
  BY <1>1, TroubleTypes DEF RequestEnd, requestEnd, TypeOK, StoreTypeOK, IngestTypeOK

LEMMA TypeStep ==
  ASSUME TypeOK, [Next]_vars
  PROVE  TypeOK'
<1>1. CASE Tick
  BY <1>1, TickStores DEF Tick, TypeOK, ingest, IngestTypeOK, trouble
<1>2. CASE UNCHANGED vars
  BY <1>2 DEF vars, TypeOK, StoreTypeOK, IngestTypeOK
<1>3. QED
  BY <1>1, <1>2, CoordinatorTypes, RequestTypes, WorkerTypes, PublishTypes DEF Next

\* Every row, process and connection stays well formed, whoever races.
THEOREM TypeCorrect == Spec => []TypeOK
<1>1. Init => TypeOK
  <2>1. SUFFICES ASSUME Init PROVE TypeOK
    OBVIOUS
  <2>2. NoSession \in SessionRow /\ [state |-> "none", age |-> 0] \in WorkerRow
    BY Bounds DEF NoSession, SessionRow, WorkerRow
  <2>3. <<>> \in Seq(Event)
    OBVIOUS
  <2>4. StoreTypeOK
    BY <2>1, <2>2, <2>3 DEF Init, StoreInit, StoreTypeOK
  <2>5. /\ NoConn \in Conn
        /\ [pc |-> "off", me |-> "starting", deadlineHandled |-> FALSE] \in Process
    BY DEF NoConn, Conn, Socket, Process
  <2>6. IngestTypeOK
    BY <2>1, <2>5 DEF Init, IngestInit, IngestTypeOK
  <2>7. coordinator \in Place
    BY <2>1 DEF Init, Idle, Place
  <2>8. QED BY <2>4, <2>6, <2>7 DEF TypeOK
<1>2. TypeOK /\ [Next]_vars => TypeOK'
  BY TypeStep
<1>3. QED BY <1>1, <1>2, PTL DEF Spec

-----------------------------------------------------------------------------
(* What a step may do to one session                                       *)
(*                                                                         *)
(* Every safety result below rests on two facts: only an admission opens a *)
(* session, and every other step leaves a session its stream, its worker   *)
(* and, while it is open, its lease (the clock apart).                     *)

LEMMA TickKeeps ==
  ASSUME StoreTypeOK, Tick
  PROVE  \A t \in Session : Kept(t)
BY DEF Tick, Kept, Open, StoreTypeOK, SessionRow

LEMMA OnlyAdmissionOpens ==
  ASSUME TypeOK, [Next]_vars
  PROVE  (\E s \in Session : Admit(s)) \/ (\A t \in Session : Kept(t))
<1>0. StoreTypeOK
  BY DEF TypeOK
<1>1. CASE Coordinator \/ TickFails
  BY <1>0, <1>1, UnchangedKeeps, TransitionKeeps
     DEF Coordinator, TickFails, StartTick, ReadOrphans, ReadGenerations, Lose, DrainOlder,
         FailDoomed, store, STATES
<1>2. CASE Tick
  BY <1>0, <1>2, TickKeeps
<1>3. ASSUME NEW s \in Session, RequestEnd(s)
      PROVE  \A t \in Session : Kept(t)
  BY <1>0, <1>3, RequestKeeps DEF RequestEnd
<1>4. ASSUME NEW w \in Worker, WorkerStep(w)
      PROVE  \A t \in Session : Kept(t)
  BY <1>0, <1>4, HeartbeatKeeps, UnchangedKeeps
     DEF WorkerStep, WorkerDuty, Register, Sigterm, Beat, Crash, BecomeReady, DrainDeadline,
         ExitWhenIdle, WriteStop, Exit, Publish, store
<1>5. ASSUME NEW s \in Session, PublishStep(s), ~Admit(s)
      PROVE  \A t \in Session : Kept(t)
  BY <1>0, <1>5, TransitionKeeps, FinishKeeps, UnchangedKeeps
     DEF PublishStep, PublishDuty, RefusePublish, StartPublishing, Overtake, FinishAbandoned, GoLive,
         FinishEnd, EndRequested, EncoderLeaves, CallFails, store, STATES
<1>6. CASE UNCHANGED vars
  BY <1>0, <1>6, UnchangedKeeps DEF vars
<1>7. QED BY <1>1, <1>2, <1>3, <1>4, <1>5, <1>6 DEF Next

\* One open session per stream, whatever races: the second publisher is refused
\* or takes over from a session it closes in the same transaction.
THEOREM OneOpenSessionHolds == Spec => []OneOpenSession
<1>1. Init => OneOpenSession
  BY DEF Init, StoreInit, NoSession, OneOpenSession, Open, OPEN, STATES
<1>2. TypeOK /\ OneOpenSession /\ [Next]_vars => OneOpenSession'
  <2>1. SUFFICES ASSUME TypeOK, OneOpenSession, [Next]_vars PROVE OneOpenSession'
    OBVIOUS
  <2>2. ASSUME NEW s \in Session, Admit(s)
        PROVE  OneOpenSession'
    <3>1. PICK d, w : d = conn[s].definition /\ w = conn[s].worker
      OBVIOUS
    <3>2. StoreTypeOK /\ admit(s, d, w)
      BY <2>1, <2>2, <3>1 DEF Admit, TypeOK
    <3>3. QED BY <2>1, <3>2, AdmitExclusive
  <2>3. CASE \A t \in Session : Kept(t)
    BY <2>1, <2>3, KeptExclusive
  <2>4. QED BY <2>1, <2>2, <2>3, OnlyAdmissionOpens
<1>3. QED BY <1>1, <1>2, TypeCorrect, PTL DEF Spec

-----------------------------------------------------------------------------
(* Who stands behind a session                                             *)
(*                                                                         *)
(* The other results are inductive only with Ownership: a session row is   *)
(* inserted by the admission of its connection, carries that connection's  *)
(* worker, and that worker's process has been started.                     *)

Owned(s) ==
  /\ conn[s].phase # "idle" =>
       conn[s].worker \in Worker /\ process[conn[s].worker].pc \notin {"off", "starting"}
  /\ (session[s].state = "none") <=> (conn[s].phase \in {"idle", "admitting"})
  /\ session[s].state # "none" => session[s].worker = conn[s].worker
Ownership == \A s \in Session : Owned(s)

\* A process never starts twice and never comes back, and a fault is not forgotten.
Onward ==
  /\ \A w \in Worker :
       /\ process[w].pc \notin {"off", "starting"} => process'[w].pc \notin {"off", "starting"}
       /\ process[w].pc = "gone" => process'[w].pc = "gone"
  /\ faults' >= faults

\* What every step but an admission does to the connection of s.
ConnKept(s) ==
  /\ (conn'[s].phase \in {"idle", "admitting"}) <=> (conn[s].phase \in {"idle", "admitting"})
  /\ conn'[s].phase # "idle" =>
       \/ conn[s].phase # "idle" /\ conn'[s].worker = conn[s].worker
       \/ /\ conn[s].phase = "idle" /\ conn'[s].worker \in Worker
          /\ process[conn'[s].worker].pc = "up"
  /\ conn'[s].phase \in {"done", "overtaken"} =>
       \/ conn'[s].phase = conn[s].phase \/ ~Open(s)' \/ process'[conn'[s].worker].pc = "gone"
       \/ /\ \A t \in Session \ {s} : conn'[t] = conn[t]
          /\ IF conn'[s].phase = "done" THEN faults' > faults ELSE Overtaken(s)

\* A socket that closes ends publishers and leaves every other connection where it is.
LEMMA ShutMoves ==
  ASSUME conn \in [Session -> Conn], NEW closing \in SUBSET Session, NEW t \in Session
  PROVE  /\ Shut(closing)[t].worker = conn[t].worker
         /\ Shut(closing)[t].definition = conn[t].definition
         /\ \/ Shut(closing)[t].phase = conn[t].phase
            \/ conn[t].phase = "publishing" /\ Shut(closing)[t].phase = "ending"
<1>1. Shut(closing)[t] \in {conn[t], Cut(conn[t])}
  BY DEF Shut
<1>2. QED BY <1>1 DEF Cut, Conn

LEMMA RejectedMoves ==
  ASSUME conn \in [Session -> Conn], NEW s \in Session
  PROVE  /\ Rejected(s)[s] = NoConn
         /\ \A t \in Session \ {s} : Rejected(s)[t] = conn[t] \/ Rejected(s)[t] = Shut({s})[t]
<1>1. CASE Overtaken(s)
  BY <1>1 DEF Rejected
<1>2. CASE ~Overtaken(s)
  BY <1>2, ConnTypes DEF Rejected
<1>3. QED BY <1>1, <1>2

LEMMA ProcessOnward ==
  ASSUME TypeOK, [Next]_vars
  PROVE  Onward
<1>0. process \in [Worker -> Process] /\ faults \in Nat
  BY DEF TypeOK, IngestTypeOK
<1>1. ASSUME UNCHANGED process, UNCHANGED faults \/ Fault
      PROVE  Onward
  BY <1>0, <1>1 DEF Onward, Fault
<1>2. ASSUME NEW w \in Worker, WorkerStep(w)
      PROVE  Onward
  BY <1>0, <1>2
     DEF Onward, Process, Gone, Leaving, WorkerStep, WorkerDuty, Register, Sigterm, Beat, Crash,
         BecomeReady, DrainDeadline, ExitWhenIdle, WriteStop, Exit, Publish, ingest, trouble
<1>3. CASE Coordinator \/ TickFails \/ Tick \/ UNCHANGED vars
  BY <1>1, <1>3
     DEF Coordinator, StartTick, ReadOrphans, ReadGenerations, Lose, DrainOlder, FailDoomed,
         TickFails, Tick, vars, ingest, trouble
<1>4. ASSUME NEW s \in Session, RequestEnd(s) \/ PublishStep(s)
      PROVE  Onward
  BY <1>1, <1>4
     DEF RequestEnd, PublishStep, PublishDuty, Admit, RefusePublish, StartPublishing, Overtake,
         FinishAbandoned, GoLive, FinishEnd, EndRequested, EncoderLeaves, CallFails, trouble
<1>5. QED BY <1>2, <1>3, <1>4 DEF Next

LEMMA ConnectionsKept ==
  ASSUME TypeOK, Ownership, [Next]_vars, \A s \in Session : ~Admit(s)
  PROVE  \A t \in Session : ConnKept(t)
<1>0. /\ conn \in [Session -> Conn] /\ process \in [Worker -> Process] /\ StoreTypeOK
      /\ faults \in Nat
  BY DEF TypeOK, IngestTypeOK
<1>1. ASSUME UNCHANGED conn
      PROVE  \A t \in Session : ConnKept(t)
  BY <1>1 DEF ConnKept
<1>2. ASSUME NEW closing \in SUBSET Session, conn' = Shut(closing)
      PROVE  \A t \in Session : ConnKept(t)
  BY <1>0, <1>2, ShutMoves DEF ConnKept
<1>3. ASSUME NEW w \in Worker, conn' = Torn(w), process'[w].pc = "gone"
      PROVE  \A t \in Session : ConnKept(t)
  <2> SUFFICES ASSUME NEW t \in Session PROVE ConnKept(t)
    OBVIOUS
  <2>1. CASE conn[t].worker # w
    BY <1>3, <2>1 DEF ConnKept, Torn
  <2>2. CASE conn[t].worker = w /\ session[t].state = "none"
    <3>1. conn'[t] = NoConn /\ conn[t].phase \in {"idle", "admitting"}
      BY <1>3, <2>2 DEF Torn, Ownership, Owned
    <3>2. QED BY <3>1 DEF ConnKept, NoConn
  <2>3. CASE conn[t].worker = w /\ session[t].state # "none"
    <3>1. /\ conn'[t] = [conn[t] EXCEPT !.phase = "done", !.here = FALSE, !.socket = {},
                                        !.goingLive = FALSE]
          /\ conn[t].phase \notin {"idle", "admitting"}
      BY <1>3, <2>3 DEF Torn, Ownership, Owned
    <3>2. conn'[t].phase = "done" /\ conn'[t].worker = w
      BY <1>0, <2>3, <3>1 DEF Conn
    <3>3. QED BY <1>3, <2>3, <3>1, <3>2 DEF ConnKept
  <2>4. QED BY <2>1, <2>2, <2>3
<1>4. CASE Coordinator \/ TickFails \/ Tick \/ UNCHANGED vars
  BY <1>1, <1>4
     DEF Coordinator, StartTick, ReadOrphans, ReadGenerations, Lose, DrainOlder, FailDoomed,
         TickFails, Tick, vars, ingest
<1>5. ASSUME NEW w \in Worker, WorkerStep(w)
      PROVE  \A t \in Session : ConnKept(t)
  <2>1. CASE Register(w) \/ Sigterm(w) \/ BecomeReady(w) \/ ExitWhenIdle(w) \/ WriteStop(w)
    BY <1>1, <2>1 DEF Register, Sigterm, BecomeReady, ExitWhenIdle, WriteStop, ingest
  <2>2. CASE Beat(w) \/ DrainDeadline(w)
    BY <1>1, <1>2, <2>2 DEF Beat, DrainDeadline, Dropped, publishers
  <2>3. CASE Crash(w) \/ Exit(w)
    <3>1. conn' = Torn(w)
      BY <2>3 DEF Crash, Exit
    <3>2. process'[w].pc = "gone"
      BY <1>0, <2>3 DEF Crash, Exit, Process, Gone
    <3>3. QED BY <1>3, <3>1, <3>2
  <2>4. ASSUME NEW s \in Session, NEW d \in Definition, Publish(s, d, w)
        PROVE  \A t \in Session : ConnKept(t)
    <3>1. /\ \A t \in Session \ {s} : conn'[t] = conn[t]
          /\ conn'[s].phase = "admitting" /\ conn'[s].worker = w
      <4>1. PICK socket \in Socket :
              conn' = [conn EXCEPT ![s] = [phase |-> "admitting", definition |-> d, worker |-> w,
                                           socket |-> socket, here |-> TRUE, goingLive |-> FALSE]]
        BY <1>0, <2>4, PublishEnters
      <4>2. QED BY <1>0, <4>1
    <3>2. conn[s].phase = "idle" /\ process[w].pc = "up"
      BY <2>4 DEF Publish, NoConn
    <3>3. QED BY <1>0, <3>1, <3>2 DEF ConnKept
  <2>5. QED BY <1>5, <2>1, <2>2, <2>3, <2>4 DEF WorkerStep, WorkerDuty
<1>6. ASSUME NEW s \in Session, RequestEnd(s) \/ PublishStep(s)
      PROVE  \A t \in Session : ConnKept(t)
  <2>0. finish(s) => ~Open(s)'
    BY <1>0, FinishKeeps
  <2>1. CASE RequestEnd(s)
    BY <1>1, <2>1 DEF RequestEnd
  <2>9. ASSUME conn[s].phase = "admitting", conn' = Rejected(s)
        PROVE  \A t \in Session : ConnKept(t)
    <3>0. /\ Rejected(s)[s] = NoConn
          /\ \A t \in Session \ {s} : Rejected(s)[t] = conn[t] \/ Rejected(s)[t] = Shut({s})[t]
      BY <1>0, RejectedMoves
    <3>4. conn' = Rejected(s)
      BY <2>9
    <3>1. conn'[s].phase = "idle"
      BY <3>0, <3>4 DEF NoConn
    <3>2. ASSUME NEW t \in Session \ {s}
          PROVE  /\ conn'[t].worker = conn[t].worker
                 /\ \/ conn'[t].phase = conn[t].phase
                    \/ conn[t].phase = "publishing" /\ conn'[t].phase = "ending"
      <4>1. conn'[t] = conn[t] \/ conn'[t] = Shut({s})[t]
        BY <3>0, <3>4
      <4>2. QED BY <1>0, <4>1, ShutMoves
    <3>3. QED BY <2>9, <3>1, <3>2 DEF ConnKept
  <2>2. CASE RefusePublish(s)
    BY <2>2, <2>9 DEF RefusePublish
  <2>3. CASE StartPublishing(s) \/ EncoderLeaves(s)
    BY <1>0, <1>2, <2>3 DEF StartPublishing, EncoderLeaves, ConnKept, Conn
  <2>10. CASE Overtake(s)
    BY <1>0, <2>10 DEF Overtake, ConnKept, Conn
  <2>4. CASE FinishAbandoned(s) \/ FinishEnd(s)
    BY <1>0, <2>0, <2>4 DEF FinishAbandoned, FinishEnd, ConnKept, Conn
  <2>5. CASE GoLive(s)
    <3>1. PICK c \in {conn, Shut({s})} : conn' = [c EXCEPT ![s].goingLive = FALSE]
      BY <2>5 DEF GoLive
    <3>2. c \in [Session -> Conn]
      BY <1>0, ConnTypes
    <3>3. ASSUME NEW t \in Session
          PROVE  /\ conn'[t].worker = c[t].worker
                 /\ conn'[t].phase = c[t].phase
      BY <3>1, <3>2 DEF Conn
    <3>4. QED BY <1>0, <3>1, <3>3, ShutMoves DEF ConnKept
  <2>6. ASSUME NEW w \in Worker, EndRequested(w, s)
        PROVE  \A t \in Session : ConnKept(t)
    BY <1>1, <1>2, <2>6 DEF EndRequested
  <2>7. CASE CallFails(s)
    <3>1. CASE conn[s].phase = "admitting" /\ conn' = Rejected(s)
      BY <2>9, <3>1
    <3>2. CASE ~(conn[s].phase = "admitting" /\ conn' = Rejected(s))
      BY <1>0, <2>7, <3>2 DEF CallFails, Fault, ConnKept, Conn
    <3>3. QED BY <3>1, <3>2
  <2>8. QED
    BY <1>6, <2>1, <2>2, <2>3, <2>4, <2>5, <2>6, <2>7, <2>10 DEF PublishStep, PublishDuty
<1>7. QED BY <1>4, <1>5, <1>6 DEF Next

LEMMA OwnershipStep ==
  ASSUME TypeOK, Ownership, [Next]_vars
  PROVE  Ownership'
<1>0. StoreTypeOK /\ conn \in [Session -> Conn] /\ Onward
  BY ProcessOnward DEF TypeOK, IngestTypeOK
<1>1. ASSUME NEW t \in Session, Kept(t), ConnKept(t)
      PROVE  Owned(t)'
  BY <1>0, <1>1 DEF Ownership, Owned, Onward, Kept, ConnKept
<1>2. ASSUME NEW s \in Session, Admit(s)
      PROVE  Ownership'
  <2>1. PICK d, w : d = conn[s].definition /\ w = conn[s].worker
    OBVIOUS
  <2>2. admit(s, d, w) /\ conn[s].phase = "admitting"
    BY <1>2, <2>1 DEF Admit
  <2>3. /\ session'[s] = insert(d, w)
        /\ \A t \in Session \ {s} : Kept(t)
    BY <1>0, <2>2, AdmissionKeeps
  <2>4. UNCHANGED process /\ conn' = [conn EXCEPT ![s].phase = "admitted"]
    BY <1>2 DEF Admit
  <2>5. ASSUME NEW t \in Session, t # s PROVE Owned(t)'
    BY <1>0, <2>3, <2>4, <2>5 DEF Ownership, Owned, Kept, Conn
  <2>6. Owned(s)'
    <3>1. session'[s].state = "starting" /\ session'[s].worker = w
      BY <2>3 DEF insert
    <3>2. conn'[s].phase = "admitted" /\ conn'[s].worker = w
      BY <1>0, <2>1, <2>4 DEF Conn
    <3>3. w \in Worker /\ process'[w].pc \notin {"off", "starting"}
      BY <2>1, <2>2, <2>4 DEF Ownership, Owned
    <3>4. QED BY <3>1, <3>2, <3>3 DEF Owned
  <2>7. QED BY <2>5, <2>6 DEF Ownership
<1>3. QED BY <1>1, <1>2, OnlyAdmissionOpens, ConnectionsKept DEF Ownership

LEMMA OwnershipHolds == Spec => []Ownership
<1>1. Init => Ownership
  BY DEF Init, StoreInit, IngestInit, NoSession, NoConn, Ownership, Owned
<1>2. TypeOK /\ Ownership /\ [Next]_vars => Ownership'
  BY OwnershipStep
<1>3. QED BY <1>1, <1>2, TypeCorrect, PTL DEF Spec

\* What happens in the step that locks a record, or that moves an overtaken one on.
LEMMA LockStep ==
  ASSUME TypeOK, Ownership, [Next]_vars, NEW s \in Session, Locked(s)',
         \/ ~Locked(s)
         \/ conn[s].phase = "overtaken" /\ conn'[s].phase # "overtaken"
  PROVE  /\ \/ conn'[s].phase = "overtaken" /\ Overtaken(s)
            \/ conn'[s].phase = "done" /\ faults' > faults
         /\ \A t \in Session \ {s} : Locked(t)' => Locked(t) /\ conn'[t] = conn[t]
<1>0. conn \in [Session -> Conn] /\ conn' \in [Session -> Conn] /\ StoreTypeOK /\ Onward
      /\ Ownership'
  BY OwnershipStep, ProcessOnward, TypeStep DEF TypeOK, IngestTypeOK
<1>1. ASSUME NEW t \in Session, Kept(t), conn'[t] = conn[t], Locked(t)'
      PROVE  Locked(t)
  BY <1>0, <1>1 DEF Locked, Kept, Onward, Ownership, Owned, Open, OPEN, STATES
<1>2. \A t \in Session : ~Admit(t)
  <2>1. ASSUME NEW t \in Session, Admit(t)
        PROVE  FALSE
    <3>1. PICK d, w : d = conn[t].definition /\ w = conn[t].worker
      OBVIOUS
    <3>2. \A u \in Session \ {t} : Kept(u)
      BY <1>0, <2>1, <3>1, AdmissionKeeps DEF Admit
    <3>3. conn' = [conn EXCEPT ![t].phase = "admitted"]
      BY <2>1 DEF Admit
    <3>4. s # t
      BY <1>0, <3>3 DEF Locked, Conn
    <3> QED
      BY <1>0, <1>1, <3>2, <3>3, <3>4
  <2> QED
    BY <2>1
<1>3. (\A t \in Session : Kept(t)) /\ ConnKept(s)
  BY <1>2, OnlyAdmissionOpens, ConnectionsKept
<1>4. /\ Open(s) /\ session'[s].worker = conn[s].worker /\ conn[s].worker \in Worker
      /\ session[s].worker = conn[s].worker /\ conn'[s].worker = conn[s].worker
  BY <1>0, <1>3 DEF Locked, Kept, Ownership, Owned, ConnKept, Open, OPEN, STATES
<1>5. /\ conn[s].phase \in {"admitted", "publishing", "ending", "overtaken"}
      /\ conn'[s].phase # conn[s].phase
  BY <1>0, <1>4 DEF Locked, Onward
<1>6. conn'[s].phase \in {"done", "overtaken"}
  <2>1. conn'[s].phase \notin {"idle", "admitting"}
    BY <1>3, <1>5 DEF ConnKept
  <2> QED
    BY <1>0, <2>1 DEF Locked, Conn
<1>7. /\ \A t \in Session \ {s} : conn'[t] = conn[t]
      /\ IF conn'[s].phase = "done" THEN faults' > faults ELSE Overtaken(s)
  BY <1>3, <1>4, <1>5, <1>6 DEF ConnKept, Locked
<1> QED
  BY <1>1, <1>3, <1>6, <1>7

\* A record is locked in no other step than one in which a call of its own fails or
\* its connection publishes another session: every other way out of rtmp-ingest.js
\* finishes the record, whatever it races with.
THEOREM LocksCostFaultsHolds == Spec => LocksCostFaults
<1>1. ASSUME TypeOK, Ownership, [Next]_vars, NEW s \in Session, Locked(s)', ~Locked(s)
      PROVE  /\ faults' > faults \/ Overtaken(s)
             /\ \A t \in Session \ {s} : Locked(t)' => Locked(t)
  BY <1>1, LockStep
<1>2. TypeOK /\ Ownership /\ [Next]_vars =>
        [\A s \in Session : Locked(s)' /\ ~Locked(s) =>
           /\ faults' > faults \/ Overtaken(s)
           /\ \A t \in Session \ {s} : Locked(t)' => Locked(t)]_vars
  BY <1>1
<1> QED
  BY <1>2, TypeCorrect, OwnershipHolds, PTL DEF Spec, LocksCostFaults

\* Of the publishes that were not overtaken on their connection, there are never more
\* locked records than failed calls: while no call has failed, every other open record
\* of a living process has something behind it that ends it.
LockedByFault(s) == Locked(s) /\ conn[s].phase # "overtaken"
LockedOnes == {s \in Session : LockedByFault(s)}
LocksBounded == IsFiniteSet(LockedOnes) /\ Cardinality(LockedOnes) <= faults

THEOREM LocksBoundedHolds == Spec => []LocksBounded
<1>1. Init => LocksBounded
  <2>1. Init => LockedOnes = {} /\ faults = 0
    BY DEF Init, StoreInit, IngestInit, NoSession, LockedOnes, LockedByFault, Locked, Open, OPEN,
           STATES
  <2> QED
    BY <2>1, FS_EmptySet DEF LocksBounded
<1>2. ASSUME TypeOK, Ownership, LocksBounded, [Next]_vars
      PROVE  LocksBounded'
  <2>1. faults \in Nat /\ faults' \in Nat /\ faults <= faults'
    BY <1>2, ProcessOnward, TypeStep DEF TypeOK, IngestTypeOK, Onward
  <2>2. CASE LockedOnes' \subseteq LockedOnes
    BY <1>2, <2>1, <2>2, Counted DEF LocksBounded
  <2>3. ASSUME NEW s \in Session, LockedByFault(s)', ~LockedByFault(s)
        PROVE  LocksBounded'
    <3>1. faults < faults' /\ LockedOnes' \subseteq LockedOnes \cup {s}
      BY <1>2, <2>1, <2>3, LockStep DEF LockedByFault, LockedOnes
    <3> QED
      BY <1>2, <2>1, <3>1, Counted DEF LocksBounded
  <2> QED
    BY <2>2, <2>3 DEF LockedOnes
<1>3. TypeOK /\ Ownership /\ LocksBounded /\ [Next]_vars => LocksBounded'
  BY <1>2
<1> QED
  BY <1>1, <1>3, TypeCorrect, OwnershipHolds, PTL DEF Spec

-----------------------------------------------------------------------------
(* Leases                                                                  *)

\* What every step but a beat and the clock does to a worker row.
Steady(w) == Alive(w)' => Alive(w) /\ worker'[w].age = worker[w].age

LEMMA SetWorkerSteady ==
  ASSUME worker \in [Worker -> WorkerRow], NEW w \in Worker, NEW from \in SUBSET ALIVE,
         NEW to, setWorker(w, from, to)
  PROVE  \A v \in Worker : Steady(v)
BY DEF setWorker, Steady, Alive, WorkerRow

\* The whole argument for a step that leaves beats and the clock alone.
LEMMA SteadyLeases ==
  ASSUME StoreTypeOK, StoreTypeOK', LeaseFollowsHeartbeat,
         NEW s \in Session, NEW v \in Worker,
         session'[s].worker = v, Open(s)', Alive(v)',
         Kept(s), LeaseKept(s), Steady(v)
  PROVE  session'[s].lease >= LeaseTicks - worker'[v].age
<1>1. session[s].worker = v /\ Open(s) /\ Alive(v) /\ worker'[v].age = worker[v].age
  BY DEF Kept, Steady
<1>2. session[s].lease >= LeaseTicks - worker[v].age
  BY <1>1 DEF LeaseFollowsHeartbeat
<1>3. session[s].lease \in Int /\ session'[s].lease \in Int /\ worker[v].age \in Int
  BY DEF StoreTypeOK, SessionRow, WorkerRow, Lease, Age, Past
<1>4. QED BY <1>1, <1>2, <1>3 DEF LeaseKept

LEMMA LeaseStep ==
  ASSUME TypeOK, Ownership, LeaseFollowsHeartbeat, [Next]_vars
  PROVE  LeaseFollowsHeartbeat'
<1>0. /\ StoreTypeOK /\ StoreTypeOK' /\ Ownership' /\ process \in [Worker -> Process]
      /\ conn' \in [Session -> Conn]
  BY TypeStep, OwnershipStep DEF TypeOK, IngestTypeOK
<1>1. SUFFICES ASSUME NEW s \in Session, NEW v \in Worker,
                      session'[s].worker = v, Open(s)', Alive(v)'
               PROVE  session'[s].lease >= LeaseTicks - worker'[v].age
  <2>1. \A s \in Session : Open(s)' => session'[s].worker \in Worker
    BY <1>0 DEF Ownership, Owned, Open, OPEN, STATES, Conn
  <2>2. QED BY <2>1 DEF LeaseFollowsHeartbeat, Alive
<1>2. /\ worker'[v].age \in Nat /\ session'[s].lease \in Int
      /\ worker[v].age \in Nat /\ session[s].lease \in Int
  BY <1>0, <1>1 DEF StoreTypeOK, SessionRow, WorkerRow, Lease, Age, Past
<1>3. ASSUME Kept(s), LeaseKept(s), \A w \in Worker : Steady(w)
      PROVE  session'[s].lease >= LeaseTicks - worker'[v].age
  BY <1>0, <1>1, <1>3, SteadyLeases
<1>4. UNCHANGED worker => \A w \in Worker : Steady(w)
  BY DEF Steady, Alive
<1>5. \A w \in Worker : stop(w) \/ lose(w) \/ drain(w) => \A u \in Worker : Steady(u)
  <2> SUFFICES ASSUME NEW w \in Worker, stop(w) \/ lose(w) \/ drain(w)
               PROVE  \A u \in Worker : Steady(u)
    OBVIOUS
  <2>1. worker \in [Worker -> WorkerRow]
    BY <1>0 DEF StoreTypeOK
  <2>2. {"starting", "ready"} \in SUBSET ALIVE
    BY DEF ALIVE
  <2>3. QED BY <2>1, <2>2, SetWorkerSteady DEF stop, lose, drain
<1>6. ASSUME NEW w \in Worker, register(w) \/ ready(w), UNCHANGED session,
             process[w].pc \in {"off", "starting"}
      PROVE  session'[s].lease >= LeaseTicks - worker'[v].age
  <2>1. v # w
    <3>1. Kept(s)
      BY <1>0, <1>6, UnchangedKeeps
    <3>2. process[v].pc \notin {"off", "starting"}
      BY <1>1, <3>1 DEF Kept, Ownership, Owned, Open, OPEN, STATES
    <3>3. QED BY <1>6, <3>2
  <2>2. worker'[v] = worker[v]
    BY <1>0, <1>2, <1>6, <2>1 DEF register, ready, StoreTypeOK
  <2>3. Steady(v)
    BY <2>2 DEF Steady, Alive
  <2>4. Kept(s) /\ LeaseKept(s)
    BY <1>0, <1>6, UnchangedKeeps
  <2>5. QED BY <1>0, <1>1, <2>3, <2>4, SteadyLeases
<1>7. ASSUME NEW w \in Worker, heartbeat(w)
      PROVE  session'[s].lease >= LeaseTicks - worker'[v].age
  <2>1. Kept(s) /\ LeaseKept(s)
    BY <1>0, <1>7, HeartbeatKeeps
  <2>2. CASE v = w /\ Alive(w)
    <3>1. s \in ofWorker(w)
      BY <1>1, <2>1, <2>2 DEF Kept, ofWorker
    <3>2. session'[s].lease = LeaseTicks
      BY <1>0, <1>7, <2>2, <3>1 DEF heartbeat, StoreTypeOK, SessionRow
    <3>3. QED BY <1>2, <3>2
  <2>3. CASE ~(v = w /\ Alive(w))
    <3>1. worker'[v] = worker[v]
      BY <1>0, <1>2, <1>7, <2>3 DEF heartbeat, StoreTypeOK
    <3>2. Steady(v)
      BY <3>1 DEF Steady, Alive
    <3>3. QED BY <1>0, <1>1, <2>1, <3>2, SteadyLeases
  <2>4. QED BY <2>2, <2>3
<1>8. CASE Tick
  <2>1. Kept(s)
    BY <1>0, <1>8, TickKeeps
  <2>2. session[s].worker = v /\ Open(s)
    BY <1>1, <2>1 DEF Kept
  <2>3. Alive(v) /\ worker'[v].age = IF worker[v].age <= LeaseTicks THEN worker[v].age + 1
                                     ELSE worker[v].age
    <3>1. worker'[v] = IF Alive(v) /\ worker[v].age <= LeaseTicks
                       THEN [worker[v] EXCEPT !.age = @ + 1] ELSE worker[v]
      BY <1>8 DEF Tick
    <3>2. worker[v] \in WorkerRow
      BY <1>0 DEF StoreTypeOK
    <3>3. worker'[v].state = worker[v].state
      BY <3>1, <3>2 DEF WorkerRow
    <3>4. Alive(v)
      BY <1>1, <3>3 DEF Alive
    <3>5. QED BY <3>1, <3>2, <3>4 DEF WorkerRow
  <2>4. session'[s].lease = IF session[s].lease > Past THEN session[s].lease - 1
                            ELSE session[s].lease
    BY <1>0, <1>8, <2>2 DEF Tick, StoreTypeOK, SessionRow
  <2>5. session[s].lease >= LeaseTicks - worker[v].age /\ session[s].lease >= -1
        /\ worker[v].age <= LeaseTicks + 1
    <3>1. session[s].lease >= LeaseTicks - worker[v].age
      BY <2>2, <2>3 DEF LeaseFollowsHeartbeat
    <3>2. session[s] \in SessionRow /\ worker[v] \in WorkerRow
      BY <1>0 DEF StoreTypeOK
    <3>3. session[s].lease \in Past..LeaseTicks /\ worker[v].age \in 0..LeaseTicks + 1
      BY <3>2 DEF SessionRow, WorkerRow, Lease, Age
    <3>4. QED BY <3>1, <3>3 DEF Past
  <2>6. QED BY <1>2, <2>3, <2>4, <2>5 DEF Past
<1>9. ASSUME NEW t \in Session, Admit(t)
      PROVE  session'[s].lease >= LeaseTicks - worker'[v].age
  <2>1. PICK d, w : d = conn[t].definition /\ w = conn[t].worker
    OBVIOUS
  <2>2. /\ session'[t] = insert(d, w)
        /\ \A u \in Session \ {t} : Kept(u) /\ LeaseKept(u)
    BY <1>0, <1>9, <2>1, AdmissionKeeps DEF Admit
  <2>3. CASE s = t
    BY <1>2, <2>2, <2>3 DEF insert
  <2>4. CASE s # t
    BY <1>3, <1>4, <1>9, <2>2, <2>4 DEF Admit
  <2>5. QED BY <2>3, <2>4
<1>10. CASE Coordinator \/ TickFails \/ UNCHANGED vars
  <2>1. Kept(s) /\ LeaseKept(s)
    BY <1>0, <1>10, UnchangedKeeps, TransitionKeeps
       DEF Coordinator, TickFails, StartTick, ReadOrphans, ReadGenerations, Lose, DrainOlder,
           FailDoomed, store, vars, STATES
  <2>2. \A w \in Worker : Steady(w)
    BY <1>4, <1>5, <1>10
       DEF Coordinator, TickFails, StartTick, ReadOrphans, ReadGenerations, Lose, DrainOlder,
           FailDoomed, store, vars
  <2>3. QED BY <1>3, <2>1, <2>2
<1>11. ASSUME NEW t \in Session, RequestEnd(t) \/ PublishStep(t), ~Admit(t)
       PROVE  session'[s].lease >= LeaseTicks - worker'[v].age
  <2>1. Kept(s) /\ LeaseKept(s)
    BY <1>0, <1>11, TransitionKeeps, FinishKeeps, UnchangedKeeps, RequestKeeps
       DEF RequestEnd, PublishStep, PublishDuty, RefusePublish, StartPublishing, Overtake,
           FinishAbandoned, GoLive, FinishEnd, EndRequested, EncoderLeaves, CallFails, store,
           STATES
  <2>2. UNCHANGED worker
    BY <1>11
       DEF RequestEnd, requestEnd, PublishStep, PublishDuty, RefusePublish, StartPublishing, Overtake,
           FinishAbandoned, GoLive, FinishEnd, EndRequested, EncoderLeaves, CallFails, store
  <2>3. QED BY <1>3, <1>4, <2>1, <2>2
<1>12. ASSUME NEW w \in Worker, WorkerStep(w)
       PROVE  session'[s].lease >= LeaseTicks - worker'[v].age
  <2>1. CASE Register(w) \/ BecomeReady(w)
    BY <1>6, <2>1 DEF Register, BecomeReady
  <2>2. CASE Beat(w)
    BY <1>7, <2>2 DEF Beat
  <2>3. CASE Sigterm(w) \/ WriteStop(w)
    BY <1>0, <1>3, <1>5, <2>3, UnchangedKeeps DEF Sigterm, WriteStop
  <2>4. CASE \/ Crash(w) \/ DrainDeadline(w) \/ ExitWhenIdle(w) \/ Exit(w)
             \/ \E t \in Session, d \in Definition : Publish(t, d, w)
    BY <1>0, <1>3, <1>4, <2>4, UnchangedKeeps
       DEF Crash, DrainDeadline, ExitWhenIdle, Exit, Publish, store
  <2>5. QED BY <1>12, <2>1, <2>2, <2>3, <2>4 DEF WorkerStep, WorkerDuty
<1>13. QED BY <1>8, <1>9, <1>10, <1>11, <1>12 DEF Next

\* An open session of a worker that counts as alive has at least as much lease
\* left as its worker has silence left.
THEOREM LeaseFollowsHeartbeatHolds == Spec => []LeaseFollowsHeartbeat
<1>1. Init => LeaseFollowsHeartbeat
  BY DEF Init, StoreInit, NoSession, LeaseFollowsHeartbeat, Open, OPEN, STATES
<1>2. TypeOK /\ Ownership /\ LeaseFollowsHeartbeat /\ [Next]_vars => LeaseFollowsHeartbeat'
  BY LeaseStep
<1>3. QED BY <1>1, <1>2, TypeCorrect, OwnershipHolds, PTL DEF Spec

\* An admission that takes a stream over never takes it from a worker that beat
\* within the lease.
THEOREM TakeoverOnlyFromSilentHolds == Spec => TakeoverOnlyFromSilent
<1> DEFINE Takeover(s, t) ==
      /\ session[t].state = "none" /\ session'[t].state = "starting"
      /\ Open(s) /\ session'[s].state = "failed"
<1>1. ASSUME TypeOK, Ownership, LeaseFollowsHeartbeat, [Next]_vars,
             NEW s \in Session, NEW t \in Session, Takeover(s, t)
      PROVE  ~(Alive(session[s].worker) /\ worker[session[s].worker].age < LeaseTicks)
  <2>0. StoreTypeOK /\ session[s].worker \in Worker
    BY <1>1 DEF TypeOK, IngestTypeOK, Ownership, Owned, Open, OPEN, STATES
  <2>1. PICK a \in Session : Admit(a)
    BY <1>1, OnlyAdmissionOpens DEF Kept
  <2>2. PICK d, w : d = conn[a].definition /\ w = conn[a].worker
    OBVIOUS
  <2>3. admit(a, d, w)
    BY <2>1, <2>2 DEF Admit
  <2>4. s \in openForDefinition(d)
    <3>1. s # a
      BY <1>1, <2>3 DEF admit, Open, OPEN, STATES
    <3>2. CASE s \notin openForDefinition(d)
      <4>1. session'[s] = session[s]
        BY <2>3, <3>1, <3>2 DEF admit
      <4>2. QED BY <1>1, <4>1 DEF Open, OPEN, TERMINAL
    <3>3. QED BY <3>2
  <2>5. ~(session[s].lease > 0)
    BY <2>3, <2>4 DEF admit, Refused, openForDefinition
  <2>6. session[s].lease \in Int /\ worker[session[s].worker].age \in Int
    BY <2>0 DEF StoreTypeOK, SessionRow, WorkerRow, Lease, Age, Past
  <2>7. Alive(session[s].worker) =>
          session[s].lease >= LeaseTicks - worker[session[s].worker].age
    BY <1>1 DEF LeaseFollowsHeartbeat
  <2>8. QED BY <2>5, <2>6, <2>7
<1>2. /\ TypeOK /\ Ownership /\ LeaseFollowsHeartbeat /\ [Next]_vars
      => [\A s, t \in Session :
            Takeover(s, t) =>
              ~(Alive(session[s].worker) /\ worker[session[s].worker].age < LeaseTicks)]_vars
  BY <1>1
<1>3. QED
  BY <1>2, TypeCorrect, OwnershipHolds, LeaseFollowsHeartbeatHolds, PTL
     DEF Spec, TakeoverOnlyFromSilent

-----------------------------------------------------------------------------
(* The life cycle                                                          *)
(*                                                                         *)
(* The walks of IngestStoreProofs, step by step of this system.            *)

\* The stream a publish is admitted to is one of the streams.
Streamed(s) == conn[s].phase = "admitting" => conn[s].definition \in Definition

Coherent == Recounted /\ \A s \in Session : Streamed(s)

LEMMA TickWalks ==
  ASSUME StoreTypeOK, Tick
  PROVE  \A t \in Session : Walks(t)
<1> SUFFICES ASSUME NEW t \in Session PROVE Stays(t)
  BY DEF Walks
<1>1. session[t] \in SessionRow
  BY DEF StoreTypeOK
<1> QED
  BY <1>1 DEF Tick, Stays, SessionRow

\* Every step is a walk of every session.
LEMMA Walking ==
  ASSUME TypeOK, Coherent, [Next]_vars
  PROVE  \A t \in Session : Walks(t)
<1>0. StoreTypeOK /\ Recounted
  BY DEF TypeOK, Coherent
<1>1. CASE Coordinator \/ TickFails
  BY <1>0, <1>1, OthersStay, TransitionWalks
     DEF Coordinator, TickFails, StartTick, ReadOrphans, ReadGenerations, Lose, DrainOlder,
         FailDoomed, store
<1>2. CASE Tick
  BY <1>0, <1>2, TickWalks
<1>3. ASSUME NEW s \in Session, RequestEnd(s)
      PROVE  \A t \in Session : Walks(t)
  BY <1>0, <1>3, OthersStay DEF RequestEnd, requestEnd
<1>4. ASSUME NEW w \in Worker, WorkerStep(w)
      PROVE  \A t \in Session : Walks(t)
  <2>1. UNCHANGED told /\ (UNCHANGED session \/ heartbeat(w))
    BY <1>4
       DEF WorkerStep, WorkerDuty, Register, Sigterm, Beat, Crash, BecomeReady, DrainDeadline,
           ExitWhenIdle, WriteStop, Exit, Publish, store, heartbeat
  <2> QED
    BY <1>0, <2>1, OthersStay
<1>5. ASSUME NEW s \in Session, PublishStep(s)
      PROVE  \A t \in Session : Walks(t)
  <2>1. CASE Admit(s)
    <3>1. PICK d, w : d = conn[s].definition /\ w = conn[s].worker
      OBVIOUS
    <3>2. d \in Definition /\ admit(s, d, w)
      BY <2>1, <3>1 DEF Admit, Coherent, Streamed
    <3> QED
      BY <1>0, <3>2, AdmitWalks
  <2>2. CASE \/ GoLive(s) \/ FinishAbandoned(s) \/ FinishEnd(s)
             \/ \E w \in Worker : EndRequested(w, s)
    BY <1>0, <2>2, OthersStay, TransitionWalks, FinishWalks
       DEF GoLive, FinishAbandoned, FinishEnd, EndRequested
  <2>3. CASE RefusePublish(s) \/ StartPublishing(s) \/ Overtake(s) \/ EncoderLeaves(s) \/ CallFails(s)
    BY <1>0, <2>3, OthersStay DEF RefusePublish, StartPublishing, Overtake, EncoderLeaves, CallFails, store
  <2> QED
    BY <1>5, <2>1, <2>2, <2>3 DEF PublishStep, PublishDuty
<1>6. CASE UNCHANGED vars
  BY <1>0, <1>6, OthersStay DEF vars
<1> QED
  BY <1>1, <1>2, <1>3, <1>4, <1>5, <1>6 DEF Next

\* Only a publish enters "admitting", and it is of one of the streams.
LEMMA StreamedStays ==
  ASSUME TypeOK, Coherent, [Next]_vars, NEW t \in Session
  PROVE  Streamed(t)'
<1>0. conn \in [Session -> Conn] /\ Streamed(t)
  BY DEF TypeOK, IngestTypeOK, Coherent
<1>1. ASSUME NEW w \in Worker, WorkerStep(w)
      PROVE  Streamed(t)'
  <2>1. CASE UNCHANGED conn
    BY <1>0, <2>1 DEF Streamed
  <2>2. CASE conn' = Dropped(w) \/ conn' = Torn(w)
    <3>0. conn[t] \in Conn
      BY <1>0
    <3>1. conn'[t].phase = "admitting" =>
            conn[t].phase = "admitting" /\ conn'[t].definition = conn[t].definition
      <4>1. CASE conn' = Dropped(w)
        <5>1. conn'[t] \in {conn[t], Cut(conn[t])}
          BY <4>1 DEF Dropped, Shut
        <5> QED
          BY <3>0, <5>1 DEF Cut, Conn
      <4>2. CASE conn' = Torn(w)
        BY <3>0, <4>2 DEF Torn, NoConn, Conn
      <4> QED
        BY <2>2, <4>1, <4>2
    <3> QED
      BY <1>0, <3>1 DEF Streamed
  <2>3. ASSUME NEW s \in Session, NEW d \in Definition, Publish(s, d, w)
        PROVE  Streamed(t)'
    <3>1. PICK socket \in Socket :
            conn' = [conn EXCEPT ![s] = [phase |-> "admitting", definition |-> d, worker |-> w,
                                         socket |-> socket, here |-> TRUE, goingLive |-> FALSE]]
      BY <1>0, <2>3, PublishEnters
    <3> QED
      BY <1>0, <3>1 DEF Streamed
  <2> QED
    BY <1>1, <2>1, <2>2, <2>3
       DEF WorkerStep, WorkerDuty, Register, Sigterm, Beat, Crash, BecomeReady, DrainDeadline,
           ExitWhenIdle, WriteStop, Exit, ingest
<1>2. ASSUME NEW s \in Session, PublishStep(s)
      PROVE  Streamed(t)'
  <2> DEFINE Same(c) == c.phase = "admitting" =>
                          conn[t].phase = "admitting" /\ c.definition = conn[t].definition
  <2>0. /\ \A closing \in SUBSET Session : Same(Shut(closing)[t])
        /\ Same(Rejected(s)[t])
    <3>1. \A closing \in SUBSET Session : Same(Shut(closing)[t])
      BY <1>0, ShutMoves
    <3>2. Rejected(s)[t] \in {NoConn, conn[t], Shut({s})[t]}
      BY <1>0, RejectedMoves
    <3> QED
      BY <3>1, <3>2 DEF NoConn
  <2>1. Same(conn'[t])
    <3>1. CASE Admit(s) \/ StartPublishing(s) \/ Overtake(s) \/ FinishAbandoned(s) \/ FinishEnd(s)
      BY <1>0, <3>1 DEF Admit, StartPublishing, Overtake, FinishAbandoned, FinishEnd, Conn
    <3>2. CASE RefusePublish(s) \/ EncoderLeaves(s)
      BY <2>0, <3>2 DEF RefusePublish, EncoderLeaves
    <3>3. CASE CallFails(s)
      <4>1. CASE conn' = Rejected(s)
        BY <2>0, <4>1
      <4>2. CASE conn' # Rejected(s)
        BY <1>0, <3>3, <4>2 DEF CallFails, Conn
      <4> QED
        BY <4>1, <4>2
    <3>4. CASE GoLive(s)
      <4>1. PICK c \in {conn, Shut({s})} : conn' = [c EXCEPT ![s].goingLive = FALSE]
        BY <3>4 DEF GoLive
      <4>2. c \in [Session -> Conn] /\ Same(c[t])
        BY <1>0, <2>0, ConnTypes
      <4>3. conn'[t].phase = c[t].phase /\ conn'[t].definition = c[t].definition
        BY <4>1, <4>2 DEF Conn
      <4> QED
        BY <4>2, <4>3
    <3>5. ASSUME NEW w \in Worker, EndRequested(w, s)
          PROVE  Same(conn'[t])
      BY <2>0, <3>5 DEF EndRequested
    <3> QED
      BY <1>2, <3>1, <3>2, <3>3, <3>4, <3>5 DEF PublishStep, PublishDuty
  <2> QED
    BY <1>0, <2>1 DEF Streamed
<1>3. CASE UNCHANGED conn
  BY <1>0, <1>3 DEF Streamed
<1> QED
  BY <1>1, <1>2, <1>3
     DEF Next, Coordinator, TickFails, StartTick, ReadOrphans, ReadGenerations, Lose, DrainOlder,
         FailDoomed, Tick, RequestEnd, ingest, vars

LEMMA CoherentHolds == Spec => []Coherent
<1>1. Init => Coherent
  BY DEF Init, StoreInit, IngestInit, NoSession, NoConn, Coherent, Recounted, Story, Streamed
<1>2. TypeOK /\ Coherent /\ [Next]_vars => Coherent'
  BY Walking, WalkRecounts, StreamedStays DEF Coherent
<1> QED
  BY <1>1, <1>2, TypeCorrect, PTL DEF Spec

-----------------------------------------------------------------------------
(* The refinement                                                          *)

\* LifecycleSpec (sessions.js as a whole): the rows and the outbox walk the
\* life cycle of SessionLifecycle, through every race, failure and crash.
THEOREM LifecycleSpecHolds == Spec => LifecycleSpec
<1>1. Init => Lifecycle!Init
  BY LifecycleInit DEF Init, StoreInit
<1>2. TypeOK /\ TypeOK' /\ Coherent /\ OneOpenSession' /\ [Next]_vars
        => [Lifecycle!Next]_Lifecycle!lifecycle
  <2> SUFFICES ASSUME TypeOK, TypeOK', Coherent, OneOpenSession', [Next]_vars
               PROVE  Lifecycle!Next
    OBVIOUS
  <2>1. \A s \in Session : Walks(s)
    BY Walking
  <2> QED
    BY <2>1, WalkRefines DEF TypeOK
<1> QED
  BY <1>1, <1>2, TypeCorrect, CoherentHolds, OneOpenSessionHolds, PTL
     DEF Spec, LifecycleSpec, Lifecycle!Spec
=============================================================================
