# OpenRestream in TLA+

TLA+ modules, TLC runs and TLAPS proofs about OpenRe.Stream: the service that
takes live video in (RTMP, JSMPEG, WebRTC), records it through OpenVibe.Media and
pushes it out to restream destinations. The modules are translated from the code
under `server/` and `workers/`; `PROJECT.json` maps every definition to the lines
it stands for.

## 1. The system

Several processes share one PostgreSQL database and talk through nothing else.
Every `db.tx` runs SERIALIZABLE (`server/store/index.js`), so a transaction is one
atomic step here; whatever lies between two of them is open to everybody else.

| Part | State it keeps | Operations | Properties that make it correct |
|---|---|---|---|
| Session state machine (`server/state-machine.js`) | none | `canTransition`, `isTerminal` | a session only moves along the table |
| Session store (`server/store/sessions.js`) | `ingest_sessions`, outbox | admit, transition, finish, requestEnd | one open session per stream; events tell exactly what happened; closed sessions stay closed |
| Worker registry (`server/store/workers.js`) | `workers` | register, ready, heartbeat, drain, stop, lose | a heartbeat carries the leases of all open sessions |
| Worker runtime (`workers/runtime.js`) | own row as last seen, drain and stop flags | beat, drainNow, exitWhenIdle | a drain ends; a lost worker lets go |
| RTMP worker (`workers/rtmp-ingest.js`) | publishers map, pending ends | admit, prePublish, postPublish, donePublish, endSession | no record without a transport behind it |
| JSMPEG worker (`workers/jsmpeg.js`) | channels map, pending ends | handleIngest, ensureLive, endChannel, viewers and taps | as above; live only on media; readers go with the channel |
| WebRTC worker (`workers/webrtc.js`, `webrtc/sfu.js`, `webrtc/signaling.js`) | sessions map, rooms and routers, timers, egress handles | WHIP and browser publishers, viewers, egress, grace periods | as above; a silent browser closes; no router or RTP without an owner |
| WHIP negotiation (`webrtc/sdp.js`, `handleWhipPost`, `handleWhipPatch`) | producers by kind, entity-tag, ICE credentials | POST, PATCH, DELETE of a resource | both ends agree on sections, codecs, roles, and on the ICE session of a tag |
| Coordinator (`server/coordinator.js`) | none across ticks, one lease row | lose, fail, drain, assign, revoke, record | dead sessions close; only silent workers are lost |
| Outputs (`server/store/outputs.js`) | `outputs`, `destinations` | start, stop, assign, report, release, unassign | one owner per output; a requested stop is reached |
| Restream worker (`workers/restream-worker.js`) | runners map, polls | poll, handOver, drain | a start is not lost; runners go with their worker |
| Output runner (`workers/restream/output-runner.js`) | ffmpeg, timers, counters, egress | start, confirmLive, onExit, fail, stop | no ffmpeg is forgotten; the circuit breaker ends; so does a stop |
| Recordings (`server/store/recordings.js`) | `recordings`; Media keeps the VODs | ensureRequests, process (step, stepWebrtc) | a session is recorded once; a VOD is finalized or deleted, never leaked; every request ends |
| Definitions and keys (`server/store/definitions.js`) | `stream_definitions`, `ingest_keys`, `external_refs` | create, update, addRef, archive, rotate, resolve | one active key; a grace is kept; a Live slot has one stream |
| Stream API and Live link (`server/api/v1.js`, `server/live-link.js`) | what a request has read | POST, PATCH, DELETE, rotate, link | the mirror switch follows the link's outcome |
| Migration (`server/migrate-live.js`) | `migration_map` | import of slots and destinations | may be run again; nothing is created twice |
| SSO, UI, lineage, scripts | little or none of their own | request handling, checks | outside this project |

How they interact. A worker `register`s (a new generation of its kind), becomes
`ready`, and from then on beats; a beat renews the lease of every open session the
worker owns, in one transaction, and brings back the worker's own row: that is how
it learns that it drains or that it was given up on. An encoder's publish is
admitted by a transaction that refuses it while another open session of the stream
has lease left, and fails the ones whose lease ran out. The coordinator ticks: it
loses silent workers and fails their sessions, fails orphans (no lease, no beating
worker), and drains every generation older than the newest ready one. Owners ask
for an end by writing it in the session's row; the owning worker's beat reads it.
A tick also creates the outputs a live session is due and gives pending ones to the newest
ready restream worker, which polls what it was given, runs one ffmpeg per output and reports
back; owners start and stop outputs by writing the rows.
The last step of a tick advances recording requests: for each live session that is to be
recorded the coordinator creates a VOD in Media, names it in the request's row, starts
the ingest, and when the session is over finalizes the VOD; a worker is not involved.
Before any of this an owner creates a stream with its ingest key, over the API or by the
import from Live, and may rotate the key, bind the stream to a slot of Live or archive it
while encoders publish with what they resolved a moment ago.

What is hard: every handler of a worker awaits the database, so handlers interleave
at each await; worker, coordinator and owner write the same rows; any database call
can fail and most are not retried; processes are killed and suspended; time decides
who may take a stream over. `PROJECT.json` lists each place under `hazards`.

## 2. Modules

- `StateMachine`: the transition table (constant operators).
- `SessionLifecycle`: the abstract specification: each session walks the table, the
  outbox tells that story, a stream has at most one open session. No workers, leases
  or coordinator. `IngestStore` instantiates it over the tables (`LifecycleSpec`), and both ingest
  systems, which extend the store, implement it.
- `IngestStore`: the `workers` and `ingest_sessions` tables, one operator per
  statement or transaction of `workers.js` and `sessions.js`.
- `RtmpIngest`: the worker processes. One action per stretch of a handler between two
  awaits, over `process[w]` (what the process knows) and `conn[s]` (where the
  connection behind a publish attempt is).
- `IngestSystem`: composes them with the coordinator's tick, owners and time; states
  the fairness and the properties.
- `MCIngestSystem` and the `.cfg` files: instances for TLC.
- `IngestStoreProofs`: what each statement of `IngestStore` does to the tables;
  `IngestSystemProofs`: the theorems about the system.
- `Recordings`: recording requests. `recording` is the table, `vod` is Media, `job[c]` is
  where coordinator c is in a tick (what it read, the row at work, the VOD in its hand),
  `lease` is the coordinator's lease. One action per call to Media or row update.
- `RecordingLifecycle`: the abstract specification of a recording request, as the owner of the
  session sees it: what was asked, when it is announced, the film it was announced with and what
  becomes of that film, and after how many attempts it is given up on. No ticks, calls or crashes.
- `MCRecordings` and its `.cfg` file; `RecordingsProofs`: its theorems.
- `OutputStore`: the `outputs` table and what restreaming needs of `destinations`,
  `ingest_sessions` and `workers`, one operator per statement or transaction.
- `RestreamWorker`: the restream processes: the runtime, a poll row by row (`poll[w]`), the
  runners map (`runner[w]`) and the reports on their way (`reports`).
- `OutputLifecycle`: the abstract specification of an output, as the owner of the stream sees it:
  who may bring it to life, through whose hands it goes, and how long a stop stands. No polls,
  ticks, leases or calls.
- `OutputSystem`: composes them with step 5 of the tick (`tick`), the owners' requests and
  sessions that come and go; states the fairness and the properties. Its `.cfg` files need no
  MC module.
- `OutputSystemProofs`: the theorems about it.
- `PushLifecycle`: the abstract specification of the runners of one output, as the platform
  they push to sees them.
- `OutputRunner`: those runners from the inside: `runner[r]` holds where `start()` waits, the
  ffmpeg process, the timers, the counts of the circuit breaker and the egress.
- `RunnerSystem`: composes them with the output's row, the runners map, the poll that reads it,
  the drain and the end of the worker, and the owner. `RunnerSystemProofs`: its theorems.
- `DefinitionStore`: stream definitions, keys and Live refs, one operator per statement or
  transaction. `StreamApi`: the requests of the API and of the Live link step by step, and the
  two reads of an encoder's key. `LiveMigration`: the import from Live. `StreamSystem` composes
  them with the coordinator's key sweep and time; `StreamSystemProofs`: its theorems.
- `Sfu`: rooms, routers and the requests to mediasoup that are in flight. `TransportWorker`:
  what the JSMPEG and the WebRTC worker share, over `IngestStore`. `JsmpegIngest` and
  `WebrtcIngest`: what each has of its own. `TransportSystem` composes them with the
  coordinator and owners; states the fairness and the properties. `TransportSystemProofs`: its
  theorems.
- `WhipNegotiation`: one WHIP publish seen from its SDP: offer, producers, answer, and the
  resource with its PATCHes. `MCWhipNegotiation` gives it a catalogue of sections;
  `WhipNegotiationProofs`: its theorems.

Each operator marked "Mutant of X" changes X as a plausible bug would. Nothing uses
it: it shows, one per property, that TLC finds the property violated when X is
replaced by it.

### Correspondence and abstractions

- A session id stands for one publish attempt, so `session[s].state = "none"` is a row
  not inserted yet. `conn[s]` is the RTMP connection of the attempt; its `phase` follows
  `admitThenPublish`, `prePublish`, `postPublish` and `donePublish`. `conn[s].socket` names the
  connection: an encoder may send a second publish on it, with another key, while the first is
  being admitted. An encoder that stops publishing closes its connection: a deleteStream that keeps
  the connection open for another publish is left out.
- A worker is its generation number. Only the `rtmp-ingest` kind is modelled.
- Time is relative: the code only ever compares `lease_expires_at` and `heartbeat_at`
  with `now()`. `lease` is what is left of a lease, cut off at -1 (already past), `age`
  is how long ago the last beat was, cut off at `LeaseTicks + 1` (too old). `Tick`
  moves all of them. The cut-offs lose nothing: beyond them every comparison gives the
  same answer.
- `told[s]` is the sequence of outbox events about s, written by the transaction that
  causes them.
- An await that fails is `CallFails` (workers) or `TickFails` (coordinator). They,
  crashes, SIGTERMs and end requests are counted and bounded by `MaxTrouble`.
- `DrainDeadline` waits until no admission is in flight: the deadline is a day after the
  drain began by default, admissions take milliseconds.
- The coordinator's reads (`stale`, `expiredLeases`, `olderReady`) and its writes are
  separate steps. Losing a worker and reading its open sessions are one step: an
  admission between the two is the same as one just before.
- The ingest modules run one coordinator; `Recordings` has any number of them.
- `Recordings` has no session table: `over[r]` says that the session of r is ending or
  closed, which only changes once. `next_attempt_at` is the flag `due`; the length of a
  back-off does not matter, only that it ends. `list[r]` of a job is the row as `due` read
  it: the code steps a row with what it read, and so does the model. A page of 20 rows and
  its order are left out: rows do not interact.
- For `RecordingLifecycle` a request has the film it was announced with: none before that, and from
  then on the VOD its row names (`filmOf`, `footageOf`). A VOD that was created and not announced is
  nobody's film, whether a row names it or not.
- For `OutputLifecycle` a row is what it says, a deleted destination is `gone`, and a start that was
  accepted and has not committed is `claimed`. Each output has one start or stop in flight at a
  time; a delete, a change of the destination and the end of the session come whenever they like.
- Media is external. It creates, ingests, finalizes and deletes a VOD when asked, finalizes
  by itself when the source ends, refuses an ingest of what it deleted or finalized, and
  answers 409 to a second finalize. Any call may be refused without effect, as often as
  Media likes (`Refused`, `FinalizeRefused`). Calls whose effect and answer differ
  (`CreateLost`, `IngestLost`, `FinalizeLost`), deletes that fail, the row update that fails
  after the VOD was created and crashes are `faults`, bounded by `MaxFaults`.
- A row update that fails at any other place throws out of `step`; what it leaves is what a
  crash at that place leaves, and `Crash` stands for both.
- A coordinator restarted after a crash keeps its name, though the code's holder has the new
  process id. It may therefore tick at once instead of after the lease; the lease may lapse
  at any time anyway.
- In the output modules no statement tells starting, live and error apart, nor failed from
  stopped: the states are `pending`, `running` and `ended`. An output has a session and a
  destination of its own. A destination is `auto` (the coordinator may start it) or not; why
  not, and how long a cooldown lasts, is left out. A worker starts in one step, because
  nothing is assigned to one that is starting.
- The coordinator's drain of an older generation and a SIGTERM are the same step (`Drain`);
  the drain deadline may come at any time after it, once nothing that took the worker for
  ready is on its way (`Deadline`: it is a day by default).
- In `RestreamWorker` a runner reports what it likes, in any order, until it ends: its inside
  is the business of `OutputRunner`. What it reported dies with the process, and so does its ffmpeg
  (`process.on('exit')`, and `KillMode=mixed` of the unit when the process is killed).
- The worker's RTP consumer of a WebRTC recording is left out: it is closed best effort when
  the recording ends, and with the session. That a failed ingest leaves one open for a while
  is therefore not seen.

- In `OutputRunner` a delay has no length: a timer that is set may fire. Whether a process ran
  for less than `rapidCrashMs` is a choice at its exit. The counts are exact, and dropped
  when `stopped` is set, because nothing reads them any more. `pushes` is a history variable.
  Runners of one output are numbered in the order they are made; a runner that was never
  made is `unborn`. An SDP file has the output's name, so the runners share `sdp`.
- In `RunnerSystem` a poll of the row is one step (its awaits are in `RestreamWorker`), and
  an output that ended and is started again is assigned to the same worker.
- In `StreamApi` a request is the fields of `Request`; reads and writes with an await between
  them are separate steps, a serializable transaction is one. `Abort` is a restart or a failed
  query anywhere. `direct` marks a PATCH that switches the mirror on without going to the link: a
  service's, or any where no link is configured. A session is only "open" or "asked to end" here. `update` writes by id alone,
  as its statement does; `revived` remembers that this brought an archived stream back.
- `LiveMigration` imports one slot with one destination. What Live says of the user changes
  only by a sign-in. The limit on destinations per stream is left out.
- In the transport modules the worker has registered and is ready, and is the only generation;
  a silence longer than the lease is an event (`Lose`, `FailSession`), certain for a process that is
  gone and counted as an incident for one that is up. The clock and the coordinator's reads are
  `IngestSystem`'s business. Failed calls are counted apart (`faults`), because the
  properties say what holds without one.
- mediasoup is external: a request in flight is a name in `calls[s]`, its answer may come after
  its transport or room is gone (`ProducedLate`, `ConnectedLate`, `spare`). `stray` is a producer that
  was answered after its transport had closed. `MaxCalls` bounds the requests of one session in flight
  together. A browser has one transport at a time; that its DTLS closes (`sfu.js:90-92`) is not an
  action of its own: it does what `StopProduce` does, except that strays stay.
- Two constants bound the transport workers' environment. `Lingering` says whether a broadcaster
  asks for more after its session has ended; `Requested` is the set of sessions whose end is asked for
  without being counted in `MaxTrouble`, so that such a request meets a failed call.
- In `WhipNegotiation` a section is its kind, whether its port is 0, its codecs and whether it names
  an encoding; ICE credentials are numbered in the order they are issued; mediasoup handles and
  answers its requests in order. `granted` is the history of what clients were told.

## 3. Runs

| Run | Instance | Shows |
|---|---|---|
| `ingest_safety` | 2 attempts on 1 stream, 2 generations, lease of 1 tick, on one connection or two, no faults (crashes need `MaxTrouble`; silence does not: a worker may simply not beat) | `OneOpenSession`, `LeaseFollowsHeartbeat`, `TakeoverOnlyFromSilent`, `LocksCostFaults`, `LifecycleSpec` (IngestSystem implements SessionLifecycle), `TypeOK` |
| `ingest_liveness` | 1 attempt, 1 worker, up to 3 failed calls, crashes, SIGTERMs and end requests | `LocksCostFaults`, `DeadSessionsClose`, `EndRequestsHonoured`, `DrainCompletes`, `LostDropsTransports` |
| `recording_requests` | 1 request of any mode and protocol, 1 coordinator, limits of 2 and 3 attempts, 5 VODs, 2 faults | `LeaksCostFaults`, `RequestedOnce`, `RecordingIsReal`, `LifecycleSpec` (Recordings implements RecordingLifecycle), `RecordingSettles` |
| `output_handling` | 1 output, 1 worker, 1 request or change beside a delete, 1 report in flight, 1 trouble | `RunIsOwned`, `LifecycleSpec` (OutputSystem implements OutputLifecycle), `StopReached` |
| `output_generations` | 1 output that may be deleted, 2 generations, runners that only report their stop (no output is ever reported running here), no trouble | `RunnerFollows`, `DrainEnds` |
| `output_runner` | 2 runners, 2 restarts, give-up after 2 rapid crashes, 1 report in flight, 1 failed call, 1 request | `NoForgottenPush`, `PushSpec` (RunnerSystem implements PushLifecycle), `BreakerEnds`, `StopEnds` |
| `stream_requests` | 2 streams, 4 keys, 1 slot, 2 callers, 3 requests or runs of the import, 1 interruption, clock to 1 | `OneActiveKey`, `GraceIsKept`, `SlotHeldOnce`, `MirrorFollowsLink`, `CopiesCostInterruptions` |
| `transport_workers` | a JSMPEG worker with 2 attempts or a WebRTC worker with 1, 2 requests in flight, 1 failed call, crash, SIGTERM, stall or end request; beside it the end of one JSMPEG session may be asked for; broadcasters ask for nothing after the end | `LiveHasMedia`, `LifecycleSpec` (TransportSystem implements SessionLifecycle), `LocksCostFaults`, `ReadersAccounted`, `DrainCompletes`, `EndRequestsHonoured`, `SilentBrowserCloses` |
| `whip_offers` | every offer of up to 3 of 7 kinds of section, 2 PATCHes | `AnswerIsAgreed`, `RtxHasItsCodec`, `TagNamesIceSession` |
| `whip_bundle` | as above | violated: a section that was not negotiated is accepted and bundled |
| `jsmpeg_left` | 1 JSMPEG attempt, no trouble | violated: an encoder that leaves during its admission leaves an open session |
| `zombie_router` | 1 WebRTC attempt, no trouble | violated: a router is made for a session that has ended |

Why the bounds are enough: two attempts and two generations are what a race over one
stream needs (an old owner and a taker on different processes); streams do not
interact. A lease of one tick gives each of the three regions the code distinguishes
(lease left, exactly now, past; beat fresh, at the boundary, stale). Three troubles let
a fault hit a worker and the coordinator while an end is requested. Recording requests do
not interact, so one is enough; limits of 2 and 3 attempts keep the difference between a
full disk and other errors; three refused attempts and two faults create at most five VODs.
Outputs do not interact either, but for the order in which a poll looks at them. One worker
is enough for a stop: a row of another worker's is, to this one, a row that is not its own.
A hand-over needs two, and there the environment is kept quiet to stay small; `RunIsOwned`
is proved for any number of everything. Two runners are what a second ffmpeg needs, and two
restarts make the rapid-crash limit and the restart limit differ from each other and from the
first try; `NoForgottenPush` and `PushSpec` are proved for any numbers. Two callers and three requests are a
race and something that came before or after it; two rotations and a create need three keys
beside the first; a grace of one tick has a time before its end, at it and, for a key rotated a
tick later, once more before it. JSMPEG sessions meet in the drain's loop only, so two of them and one WebRTC
session. `EndRequestsHonoured` needs an end request and a failed call in one behaviour: the end of the
second JSMPEG session (`Requested`) is not counted, so that the one failure left may be the finish
that answers it. For a WebRTC session the two do not meet in the run; the beat, the end and its
finish are the same operators of `TransportWorker`. What a broadcaster asks for after its session is
`zombie_router`'s question (`Lingering`). Two requests to mediasoup are a request and one that overtakes it. Three sections give
a repeated kind beside another kind; two PATCHes are a race. Only the recording run
checks deadlock: elsewhere the system rightly stops, when no encoder comes and every worker
has gone, when all requests were made, or when a WHIP resource is deleted.

Seen while modelling, without a run of their own. Each is a behaviour of the modules above (or
of a line they leave out, where so said), which the properties that hold do not exclude.

Workers and coordinator:
- A worker that beats between the coordinator's read of stale workers and its update is lost
  all the same (`coordinator.js:55`). A draining generation can record a clean stop while an
  admission it answered is on its way (`rtmp-ingest.js:97`).
- Only the transition to live notices a closed record: a session failed while live keeps its
  publisher ("the transport must not outlive its record", `rtmp-ingest.js:183-184`). A finish
  that fails once is not repeated, and the open row is renewed by every beat
  (`rtmp-ingest.js:199`).
- The coordinator's lease is taken once per tick, and Media calls may outlast it: a second
  coordinator then records a session twice (`coordinator.js:96`; line 7 says that an overlap
  is harmless).
- A second publish on a connection whose first is being admitted is admitted as well
  (`rtmp-ingest.js:145`). When the first publishes by the time the second's answer is there,
  `prePublish` returns (line 167) and nobody finishes the second's row: the beats renew it without any
  failed call, until an owner asks for its end, the worker goes or the row is failed (`Overtake`).
- JSMPEG and WebRTC: the loop of the drain deadline awaits one end after the other and stops at
  one that fails, while `deadlineHandled` stays set. A transition to live that failed leaves `live`
  set and is not tried again.

Outputs, runners and recordings:
- An output assigned to a worker that drained, released and left since the tick looked stays
  pending with it (`outputs.js:271`); one inserted for a session that ended since the read
  is never stopped (`outputs.js:226`). With three generations, `unassign` of a poll that began
  before the hand-over can take an output from its new owner (`outputs.js:36`). A refused
  delete of a running destination says that it has been asked to stop, but the throw rolls the
  stop back (`outputs.js:164`).
- An ffmpeg that was stopped may push for up to 5 s beside the next one: `stop()` forgets the
  process when it signals it, and a stop, a start and a poll fit in between (`output-runner.js:290-296`;
  `restream-worker.js:139-140` says what two pushes at once cost). When the worker goes, those
  SIGKILL timers are `unref`ed and go with it, and `handOver` only sends SIGTERM: an ffmpeg that
  ignores it is on its own then (the `exit` handler kills what is still in the runners map, and the
  unit's `KillMode=mixed` what systemd stops). One that ignores the acknowledgement timer's SIGTERM
  (line 203), which nothing follows, keeps its runner neither live nor ended until somebody stops it.
- A row that was cancelled or failed and still names a VOD counts as its owner in `LeaksCostFaults`: no
  property asks what becomes of that VOD.
- A live report that commits late reopens a row that has failed (`output-runner.js:214`). Clean-up
  of a runner's egress removes the SDP file of its successor, which has the same path. An egress
  that opens while its runner was stopped is closed by nobody. `markDestinationFailure` counts
  with a read and a write outside a transaction; below an exit nobody handles its rejection, and
  the process goes down (`MarkCrashes`).
- A 409 of finalize skips the delete of a clips-only VOD (`recordings.js:272`); a request that was
  interrupted and whose session is over by then is cancelled with the VOD it created
  (`recordings.js:207`).

Streams and keys:
- A PATCH that has read a stream brings it back when DELETE archives it before the write
  (`definitions.js:168`); a publish between archive's check and its transaction runs on an
  archived stream (`definitions.js:198`); a rotation that comes after it gives the archived
  stream an active key. Rotating with `end_sessions` misses an admission in flight.
- A service's PATCH of `mirror_to_live`, and any PATCH where no link is configured, switches it on for
  a stream without a slot (`v1.js:183`).
- The Live link fails between Live's answer and the ref: Live shows a slot this side does not
  know of. Two imports never run together in the model; the script does not exclude it.

WebRTC:
- A WHIP encoder that vanishes without an ICE or DTLS event is never noticed. `sess.whip` is not
  emptied, so the checks at `webrtc.js:294`, `304` and `360` never refuse. Two PATCHes with one
  entity-tag both restart ICE, since If-Match is judged before the body is read
  (`webrtc.js:348`); the tag in force is the last one's (`TagNamesIceSession`).
- A produce that is answered after `closePeer` closed its transport leaves a producer that nothing
  announces the end of (`sfu.js:131-133`, `260-262`): while it is there the session does not count as
  silent, and when the next `closePeer` deletes it no timer is set. A live browser session may then stay open
  while its socket does; `SilentBrowserCloses` says so (`stray`). A WHIP session that ends while its
  connect is awaited asks for the router's capabilities all the same, which makes a router nobody
  closes (`webrtc.js:247`).
- A browser that closes its socket while it is admitted leaves a session in the map
  (`signaling.js:132-141`). Two requests that both find no router make two, and one is out of
  reach (`spare`). The failure of the second consumer of an egress leaves the first
  (`webrtc.js:406`). When a mediasoup process dies, `worker-died` has no listener and the dead
  worker stays in the pool (`sfu.js:44`).
- Thumbnails (left out): `setThumbnail` announces `session.updated` of a session that may have ended
  (`sessions.js:265`).

Fairness (`FairSpec`): the coordinator's timer and the heartbeat timers reschedule
themselves whatever a tick or a beat did (`schedule` in `coordinator.js` and
`runtime.js`); a process that decided to leave runs to its exit; a database call a
handler awaits is answered; time passes. Nothing is assumed of encoders, owners,
operators, or of crashes and failures. Weak fairness is enough: nothing disables those
steps for ever and enables them again. In `Recordings` the coordinator's timer keeps ticking,
each call is answered, refused or times out, and back-offs end; Media may refuse for ever, the
session need not end, and nothing forces a fault. In `OutputSystem` a worker that is gone is
silent for good, so one of the ticks that look finds it stale: that is strong fairness of its
loss, because a tick is not always at the place where it looks. Runners, owners, sessions and
drains owe nothing. In `RunnerSystem` the poll's interval and the runner's timers fire, calls
are answered or time out, reports commit or fail, and SIGKILL, which follows a stop after 5 s, ends a
process; ffmpeg owes no progress, no exit and no success, and need not heed the SIGTERM of the
acknowledgement timer, which no SIGKILL follows (`BreakerEnds` tells that case apart). In
`TransportSystem` timers fire, the database answers and the coordinator
finds a process that is gone; mediasoup is not assumed to answer.

## 4. Proofs

`IngestStoreProofs` has no theorem of its own: its lemmas say what each statement of `IngestStore`
does to rows and outbox, whoever runs it (`StatementWalks`, `StatementExclusive`: every session
walks the table and no stream is opened twice; `WalkRefines`: that is a step of
`SessionLifecycle`), and both ingest systems cite them.

`IngestSystemProofs` proves, for every number of streams, sessions and generations,
every lease length and any amount of trouble (from `StoreAssumption` and
`WorkerAssumption` only):

- `TypeCorrect`: `Spec => []TypeOK`.
- `OneOpenSessionHolds`: `Spec => []OneOpenSession`.
- `LeaseFollowsHeartbeatHolds`: `Spec => []LeaseFollowsHeartbeat`.
- `TakeoverOnlyFromSilentHolds`: `Spec => TakeoverOnlyFromSilent`.
- `LocksCostFaultsHolds`: `Spec => LocksCostFaults`. A record is locked when it is open, its process
  lives and nothing will end it (`Locked`): its beat renews the lease and the stream refuses every
  publish. A step locks a record only when a call fails in it, or when the record's publish was overtaken
  by another one of its connection, and no step locks two.
- `LocksBoundedHolds`: `Spec => []LocksBounded`: so the locked records of publishes that were not
  overtaken are never more than the failed calls so far. This is what is left of a finish that fails
  (`rtmp-ingest.js:199`).

The argument: only an admission opens a session row, and every other step leaves a row
its stream, its owner and (the clock apart) its lease (`OnlyAdmissionOpens`,
`AdmissionKeeps`). `OneOpenSession` is then inductive with `TypeOK`: an admission closes
every other open session of its stream in the step that opens its own. The others need
`Ownership` as well: a row is inserted by the admission of its connection, bears that
connection's worker, and that worker's process has been started. Without it a worker
that registers or becomes ready (age back to 0) might already own sessions with less
lease. `LeaseFollowsHeartbeat` gives `TakeoverOnlyFromSilent` at once: a takeover needs
a lease of at most 0, so an owner that counts as alive has been silent for a whole lease.

- `LifecycleSpecHolds`: `Spec => LifecycleSpec`, the refinement of `SessionLifecycle`.

Its invariant is `Coherent`: `Story` (a starting row has told nothing, a live one has told exactly
"started", and no row rests in "ending": the code ends and finishes a session in one transaction),
`Streamed` (a publish in admission is of a stream) and the types; that no stream is open twice is
`OneOpenSession`. Each step is then a `Walks` of every session: the row stays, or moves along
the table and writes the event of that move.

`RecordingsProofs` proves, for every set of recordings, every number of VODs and faults and
all limits on attempts (`RecordingAssumption`), when there is one coordinator (`Coordinator =
{c}`; with two of them the second may record a session again, as said above):

- `RecordingTypeCorrect`: `Spec => []TypeOK`; in particular attempts stay within the limit.
- `RequestedOnceHolds`, `RecordingIsRealHolds`: `Spec => []` of each.
- `LeaksCostFaultsHolds`: `Spec => []LeaksCostFaults`.

The inductive invariant is `Sound`: `RowOK` (what a row's state says of the VOD it names, of
its attempts and of what was announced), `ListOK` (the list read at the start of the pass is
still what the table says, but for the row at work: this is where one coordinator is needed)
and `HandOK` (where a step is, what it holds, and what its row says meanwhile). Leaks need a
second one, `LeakInv`: the VODs without an owner are at most as many as the faults. A VOD is
owned by the row that names it, unless a step is about to clear that name, or by a step that
will name or drop it; a step without a fault takes no VOD its owner, one with a fault at most
one.

- `LifecycleSpecHolds`: `Spec => LifecycleSpec`, the refinement of `RecordingLifecycle`.

Its invariant `TracedAll` adds to `Sound` what a row remembers of its past: a request that
is `recording`, `finalizing` or `finalized` was announced, one that was announced names a VOD and is
in one of these states or failed, and it is finalized only after its session (`Traced`); and what the step in progress
relies on (`InHandTraced`): the list says `recording` only of sessions that are over, Media is asked
for no JSMPEG session, and a step that finalizes read the attempts its row still has. The last one is
why a retry counts one more and not what a stale read says. Each action moves one recording
(`TickMoves` to `WorldMoves`), and `OthersSame` says that the others stay: the VOD it touches is of no
other recording.

`OutputSystemProofs` proves, for every number of outputs, workers, requests, troubles and
reports in flight (`OutputAssumption`, `RestreamAssumption`, `RequestAssumption`):

- `OutputsTypeCorrect`: `Spec => []TypeOK`.
- `RunIsOwnedHolds`: `Spec => []RunIsOwned`.
- `LifecycleSpecHolds`: `Spec => LifecycleSpec`, the refinement of `OutputLifecycle`.

`RunIsOwned` is inductive with the types. There is a lemma per statement of `outputs.js`
(what it does to the rows, whoever calls it), and one step per action that says which
statement the action runs. `ReportKeeps` is where the worker in the condition of `report`
is needed; `unassign` is harmless to it because it only touches pending rows.

The refinement goes statement by statement too (`ReleaseMoves` to `ReportMoves`: what each does is a
move of every output it changes, whoever runs it), and needs two invariants of what lies between a
read and a write: a row the tick looked up for auto-start is of a session that was on air by then
(`Looked`), and nothing is left of an output whose destination is deleted (`Removed`), without which
a start accepted before the delete could find something to set going.

`RunnerSystemProofs` proves, for every number of runners, requests, reports and failed calls and
all limits of the breaker (`RunnerAssumption`, `RequestAssumption`):

- `RunnerTypeCorrect`: `Spec => []TypeOK`.
- `NoForgottenPushHolds`: `Spec => []NoForgottenPush`.
- `PushSpecHolds`: `Spec => PushSpec`, the refinement of `PushLifecycle`.

The inductive invariant `IInv` is, beside the types: each runner is `Sane` (one that is stopped has
no process, no restart pending and no pushes; a process means that `start()` is not on its way
and no restart timer is set; without a process there is no acknowledgement or stable timer;
`pushes` is at most `attempts`, one more while the process runs; what was signalled is of a runner that
is stopped), a runner that was made and is not the current one is stopped, the current one was made,
and a SIGTERM without a SIGKILL behind it was sent by a worker that drains or goes. `NoForgottenPush`
follows: what is not in the map is stopped, and what is stopped has no process but one on its way
out. Without the clauses on `at` and
`restart` a start on its way could spawn beside a running process. `Moves` says which changes
of one runner there are, and `Follows` that each of them is a step of its push: the refinement is
proved runner by runner, and every other step is a stutter of it.

`StreamSystemProofs` proves, for every number of streams, keys, callers, slots, requests,
copies and interruptions (`StoreAssumption`, `RequestAssumption`, `MigrationAssumption`):

- `StreamsTypeCorrect`: `Spec => []TypeOK`.
- `OneActiveKeyHolds`, `SlotHeldOnceHolds`, `CopiesCostInterruptionsHolds`: `Spec => []` of each.
- `GraceIsKeptHolds`, `MirrorFollowsLinkHolds`: `Spec =>` each action property. The second one tells
  apart a PATCH that does not go to the link (`WrittenAsAsked`).

Their inductive invariant: `KeysKnown` (a key that was issued belongs to a definition that was
created, so that creating one finds no key of its own yet), `Requests` (what a request holds is of
a definition that was created, and one that will switch the mirror on is of a definition with a
slot or does not go to the link) and `Copies` (each copy, other than the one the map names or the run is about to name, is
one that an interruption left behind). `Grows` is used throughout: created definitions stay and keep their slots, which is what
keeps `Requests` true of a request that waits while others write.

`WhipNegotiationProofs` proves, for every catalogue of sections, offers of any length, any
codecs of the router and any number of PATCHes (`SectionAssumption`):

- `WhipTypeCorrect`: `Spec => []TypeOK`.
- `AnswerIsAgreedHolds`, `RtxHasItsCodecHolds`, `TagNamesIceSessionHolds`: `Spec => []` of each.

The inductive invariant has three parts. `Negotiated`: every producer so far is of a section the
router takes and of its kind, and nothing but the POST has changed anything before the answer.
`Current`: the requests to mediasoup that it has handled are the first few of those in flight, the
transport's credentials are those of the last of them, and those of the resource when there are none.
`Tagged`: the next entity-tag is one more than the answers given. `FirstIsOne` to `OfTheSection` say
what `extractRtpParameters` returns, without which nothing is known of the codecs of an answer.

`TransportSystemProofs` proves, for every number of streams, sessions, publishers and requests in
flight and any amount of trouble, whichever sessions are `Requested` and whether or not broadcasters are `Lingering`
(`StoreAssumption`, `TransportAssumption`):

- `TransportTypeCorrect`: `Spec => []TypeOK`.
- `LiveHasMediaHolds`: `Spec => []LiveHasMedia`.
- `LocksCostFaultsHolds`, `LocksBoundedHolds`: as for `IngestSystem`; a JSMPEG encoder or a browser
  that leaves during its admission is told apart (`LeftEarly`, the finding of `jsmpeg_left`).
- `ReadersAccountedHolds`: `Spec => ReadersAccounted`: viewers and taps go with their channel, and a
  step takes RTP away from all that would close it only if a call fails in it.
- `LifecycleSpecHolds`: `Spec => LifecycleSpec`, the refinement of `SessionLifecycle`, from the store's
  lemmas: nothing in these workers touches rows and outbox but the statements of `sessions.js`
  (`OnlyStatements`).

The inductive invariant `IInv` has, beside the types, that each session is `Sound(s, {})`: what the
process holds for it, what the SFU holds and what its row says fit together. `Sound(s, kept)` says more:
what has not been given up for this session either, that its record is closed with what held it
("record") or that its RTP has somebody who closes it ("egress"). That is how properties that a failed
call may break are proved although others may fail before and after: every step is `Harmless`, or it
counts a failure and takes something from one session only (`Harms`). The invariant also has `Registered`: a beat never
finds the worker's row starting. A row is there once its publish
is admitted (`Inserted`), and until the answer of the admission is handled the publish has no room, no
request, no timer and no viewer (`Early`); without that a timer or an answer could end, or watch, what
has not begun. `Flowed` is `LiveHasMedia` with the moves to live that are on their way. `Attended` and
`Finished` say that a record is not `Locked`, together with `SettingUp`: while a WHIP POST sets its
transport up, no request for a second router is in flight, so that the answers come to its own; a
viewer could ask for one only if the room's router were gone, which is why `SettingUp` speaks of
viewers (`Ledger` is that reading). It also says that the transport is there while the POST waits for its
connect, so that a connect answered without one (`ConnectedLate`) is one of a session that has
ended. `Watched` and `Sent` are `ReadersAccounted`, and `Roomless` says that a JSMPEG session has
nothing to send out.
One lemma per action shows that the session it acts on stays sound (`EndFits` serves every action that
ends one), and `OthersFit` that the rest do.

Only model-checked: everything that is liveness under fairness, which is out of
the prover's reach: `RecordingSettles`, `StopReached`, `BreakerEnds`, `StopEnds`, the properties of
`output_generations` and the temporal ones of `ingest_liveness` and `transport_workers`.

## 5. Plan

In this order, the most important behaviour first; all of it is done.

1. Ingest: `IngestStore`, `RtmpIngest`, `IngestSystem`, `SessionLifecycle`.
2. `Recordings`: the request state machine against Media, with crashes and failures.
3. `OutputStore`, `RestreamWorker`, `OutputSystem`.
4. `OutputRunner`, `RunnerSystem`: the circuit breaker, the ffmpeg processes of one output and
   their reports in flight, with `PushLifecycle` as their promise.
5. `DefinitionStore`, `StreamApi`, `LiveMigration`, `StreamSystem`: definitions, keys and Live
   refs under requests that run beside each other.
6. `Sfu`, `TransportWorker`, `JsmpegIngest`, `WebrtcIngest`, `TransportSystem`,
   `WhipNegotiation`: the other two ingest workers.
7. Proofs: every safety property of a passing run has its theorem, and so have the refinements of
   `SessionLifecycle` (twice), `RecordingLifecycle`, `OutputLifecycle` and `PushLifecycle`.

## 6. Not modelled, and why

Media transport (RTMP, WebRTC, ffmpeg arguments, thumbnails), playback URLs, string formats and
validation (names, destination URLs, SDP attributes no property tells apart), authorisation,
sign-in and pages, rate limits, discovery, lineage, configuration, the relay of the outbox and the
insides of Media, Live and mediasoup: pure I/O, pure functions, or code outside this repository.
The preflight script only reads. `PROJECT.json` gives the reason per component.
