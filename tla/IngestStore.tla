----------------------------- MODULE IngestStore -----------------------------
(***************************************************************************)
(* The two tables every OpenRestream process shares for ingest: `workers`  *)
(* (server/store/workers.js) and `ingest_sessions` with its outbox events  *)
(* (server/store/sessions.js).  Each operator below is one statement or    *)
(* one serializable transaction of those files; what happens between two   *)
(* of them is up to the processes, in the modules that extend this one.    *)
(*                                                                         *)
(* Time is relative.  The code compares lease_expires_at and heartbeat_at  *)
(* with now() and nothing else, so a row keeps the lease that is LEFT      *)
(* (expires - now, cut off at -1: "already past") and the AGE of the       *)
(* heartbeat (now - heartbeat_at, cut off at LeaseTicks + 1: "too old"),   *)
(* and Tick, in IngestSystem, moves both.                                  *)
(***************************************************************************)
EXTENDS Integers, Sequences, FiniteSets, StateMachine

CONSTANTS Definition,    \* stream definitions
          NoDefinition,  \* the definition of a session row not inserted yet
          Session,       \* session ids, one per publish attempt
          MaxGeneration, \* bound: rtmp-ingest worker processes ever started
          LeaseTicks     \* config.workers.leaseMs, in ticks

ASSUME StoreAssumption ==
  /\ NoDefinition \notin Definition
  /\ MaxGeneration \in Nat \ {0}
  /\ LeaseTicks \in Nat \ {0}

\* A worker is named by its generation: register() hands out MAX + 1 per kind.
Worker == 1..MaxGeneration
NoWorker == 0

VARIABLES worker,  \* the workers table
          session, \* the ingest_sessions table
          told     \* per session, its events in the outbox, in order

store == <<worker, session, told>>

ALIVE == {"starting", "ready", "draining"}
Past == -1                 \* no lease, or one that has run out
Lease == Past..LeaseTicks
Age == 0..LeaseTicks + 1
Event == {"started", "ended", "failed"}

WorkerRow == [state : ALIVE \cup {"none", "stopped", "lost"}, age : Age]
SessionRow == [state : STATES \cup {"none"}, definition : Definition \cup {NoDefinition},
               worker : Worker \cup {NoWorker}, lease : Lease,
               wentLive : BOOLEAN, desired : {"run", "end"}]

NoSession == [state |-> "none", definition |-> NoDefinition, worker |-> NoWorker,
              lease |-> Past, wentLive |-> FALSE, desired |-> "run"]

StoreTypeOK ==
  /\ worker \in [Worker -> WorkerRow]
  /\ session \in [Session -> SessionRow]
  /\ told \in [Session -> Seq(Event)]

StoreInit ==
  /\ worker = [w \in Worker |-> [state |-> "none", age |-> 0]]
  /\ session = [s \in Session |-> NoSession]
  /\ told = [s \in Session |-> <<>>]

Open(s) == session[s].state \in OPEN
Alive(w) == worker[w].state \in ALIVE

-----------------------------------------------------------------------------
(* ingest_sessions: what one transition does to a row and to the outbox.   *)

Moved(row, to) ==
  [row EXCEPT !.state = to,
              !.wentLive = IF to = "live" THEN TRUE ELSE @,
              !.lease = IF isTerminal(to) THEN Past ELSE @]

\* Mutant of Announced: the end of a session that never went live is told too.
AnnouncedAlways(row, to) ==
  IF to = "live" THEN <<"started">> ELSE IF to \in {"ended", "failed"} THEN <<to>> ELSE <<>>

Announced(row, to) ==
  IF to = "live" THEN <<"started">>
  ELSE IF to = "ended" /\ row.wentLive THEN <<"ended">>
  ELSE IF to = "failed" THEN <<"failed">>
  ELSE <<>>

\* applyTransition: an illegal move leaves the row and the outbox alone.
applyTransition(row, to) == IF canTransition(row.state, to) THEN Moved(row, to) ELSE row
announcement(row, to) == IF canTransition(row.state, to) THEN Announced(row, to) ELSE <<>>

\* transition(id, to)
transition(s, to) ==
  /\ session' = [session EXCEPT ![s] = applyTransition(@, to)]
  /\ told' = [told EXCEPT ![s] = @ \o announcement(session[s], to)]

\* finish(id): ending, then ended, in one transaction.
Wound(row) == IF row.state \in {"starting", "live"} THEN applyTransition(row, "ending") ELSE row
finish(s) ==
  /\ session' = [session EXCEPT ![s] = applyTransition(Wound(@), "ended")]
  /\ told' = [told EXCEPT ![s] = @ \o announcement(Wound(session[s]), "ended")]

\* admit({ definition, worker }): refused while another open session of the
\* definition still has lease left; the ones whose lease has run out are
\* failed in the same transaction that inserts the new row.
\* Mutant of openForDefinition: a session still starting is not counted as open.
liveForDefinition(d) == {s \in Session : session[s].state = "live" /\ session[s].definition = d}
openForDefinition(d) == {s \in Session : Open(s) /\ session[s].definition = d}
\* Mutant of Refused: only a live session holds its lease against a newcomer.
RefusedByLive(d) ==
  \E s \in openForDefinition(d) : session[s].state = "live" /\ session[s].lease > 0
Refused(d) == \E s \in openForDefinition(d) : session[s].lease > 0

\* Mutant of insert: a lease longer than the configured one.
insertGenerous(d, w) ==
  [state |-> "starting", definition |-> d, worker |-> w, lease |-> LeaseTicks + 1,
   wentLive |-> FALSE, desired |-> "run"]
insert(d, w) ==
  [state |-> "starting", definition |-> d, worker |-> w, lease |-> LeaseTicks,
   wentLive |-> FALSE, desired |-> "run"]

admit(s, d, w) ==
  /\ session[s].state = "none"
  /\ ~Refused(d)
  /\ session' = [t \in Session |->
       IF t = s THEN insert(d, w)
       ELSE IF t \in openForDefinition(d) THEN applyTransition(session[t], "failed")
       ELSE session[t]]
  /\ told' = [t \in Session |->
       IF t \in openForDefinition(d) THEN told[t] \o announcement(session[t], "failed")
       ELSE told[t]]

\* requestEnd(id)
requestEnd(s) ==
  /\ Open(s)
  /\ session' = [session EXCEPT ![s].desired = "end"]
  /\ UNCHANGED <<worker, told>>

endRequests(w) == {s \in Session : session[s].worker = w /\ session[s].desired = "end" /\ Open(s)}
\* Mutant of ofWorker: only live sessions belong to a worker.
liveOfWorker(w) == {s \in Session : session[s].worker = w /\ session[s].state = "live"}
ofWorker(w) == {s \in Session : session[s].worker = w /\ Open(s)}
\* Mutant of expiredLeases: sessions that never went live are left out.
expiredLiveLeases == {s \in Session : session[s].state = "live" /\ session[s].lease < 0}
expiredLeases == {s \in Session : Open(s) /\ session[s].lease < 0}

-----------------------------------------------------------------------------
(* workers *)

\* Every state change of a worker row is an UPDATE guarded by the state it
\* leaves: a row in another state is left alone.  (The heartbeat of a row that
\* is not ALIVE is never read again; its age is kept at 0.)
setWorker(w, from, to) ==
  worker' = IF worker[w].state \in from
            THEN [worker EXCEPT ![w].state = to,
                                ![w].age = IF to \in ALIVE THEN @ ELSE 0]
            ELSE worker

register(w) ==
  /\ \A v \in Worker : (worker[v].state = "none") <=> (v >= w)
  /\ worker' = [worker EXCEPT ![w] = [state |-> "starting", age |-> 0]]

\* ready() also counts as a heartbeat.
ready(w) ==
  worker' = IF worker[w].state = "starting"
            THEN [worker EXCEPT ![w] = [state |-> "ready", age |-> 0]]
            ELSE worker

drain(w) == setWorker(w, {"starting", "ready"}, "draining")
stop(w) == setWorker(w, ALIVE, "stopped")
lose(w) == setWorker(w, ALIVE, "lost")

\* heartbeat(id): the beat and the leases of every open session the worker
\* owns, in one transaction; a worker given up on renews nothing.
heartbeat(w) ==
  /\ worker' = IF Alive(w) THEN [worker EXCEPT ![w].age = 0] ELSE worker
  /\ session' = [s \in Session |->
       IF Alive(w) /\ s \in ofWorker(w) THEN [session[s] EXCEPT !.lease = LeaseTicks]
       ELSE session[s]]
  /\ UNCHANGED told

newestReady(w) ==
  /\ worker[w].state = "ready"
  /\ \A v \in Worker : worker[v].state = "ready" => v <= w
olderReady(g) == {w \in Worker : worker[w].state \in {"starting", "ready"} /\ w < g}
stale == {w \in Worker : Alive(w) /\ worker[w].age > LeaseTicks}

-----------------------------------------------------------------------------
(* Properties: what the tables promise whichever kind of worker shares them *)

\* "One open session per definition" (sessions.js, admit): whatever races, a
\* stream never has two sessions that could both go, or be, live.
OneOpenSession ==
  \A s, t \in Session :
    Open(s) /\ Open(t) /\ session[s].definition = session[t].definition => s = t

\* The promise of SessionLifecycle: each session walks the state machine, the
\* outbox tells exactly that walk, and a stream has at most one open session.
Lifecycle == INSTANCE SessionLifecycle WITH
  state  <- [s \in Session |-> session[s].state],
  stream <- [s \in Session |-> session[s].definition]
LifecycleSpec == Lifecycle!Spec

=============================================================================
