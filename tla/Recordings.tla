------------------------------ MODULE Recordings ------------------------------
(***************************************************************************)
(* Recording requests: server/store/recordings.js, driven by step 7 of the *)
(* coordinator's tick (server/coordinator.js) under its lease.             *)
(*                                                                         *)
(* A request is one row.  Advancing it takes several calls to Media, which *)
(* keeps the VOD, with a row update between them; the coordinator may die  *)
(* between any two, and any call may be refused or answered too late.      *)
(* Media is external and modelled by what the calls in recordings.js       *)
(* expect of it.  Left out: the worker's RTP consumer of a WebRTC session  *)
(* (closed best effort, and by the session's end) and all of a VOD's data. *)
(***************************************************************************)
EXTENDS Integers, FiniteSets

CONSTANTS Recording,           \* sessions with recording on, and their request rows
          NoRecording,
          Coordinator,         \* coordinator processes
          NoCoordinator,
          MAX_ATTEMPTS, DISK_MAX_ATTEMPTS,
          MaxVods,             \* bound: VODs Media ever creates
          MaxFaults            \* bound: crashes, lost answers, failed deletes and row updates

ASSUME RecordingAssumption ==
  /\ NoRecording \notin Recording
  /\ NoCoordinator \notin Coordinator
  /\ MAX_ATTEMPTS \in Nat \ {0} /\ DISK_MAX_ATTEMPTS \in Nat
  /\ MAX_ATTEMPTS <= DISK_MAX_ATTEMPTS
  /\ MaxVods \in Nat /\ MaxFaults \in Nat

Vod == 1..MaxVods
NoVod == 0

VARIABLES request,   \* Recording -> what was asked: the definition's mode, the session's protocol
          over,      \* Recording -> the session is ending, ended or failed
          recording, \* the recordings table
          told,      \* Recording -> openre.recording.requested events in the outbox
          vod,       \* Media: its VODs
          job,       \* Coordinator -> its place in a tick
          lease,     \* the coordinator's row of the leases table
          faults

vars == <<request, over, recording, told, vod, job, lease, faults>>

Request == [mode : {"vod", "clips"}, protocol : {"rtmp", "webrtc", "jsmpeg"}]
Settled == {"finalized", "failed", "cancelled"}

\* due: next_attempt_at has come.
Attempts == 0..DISK_MAX_ATTEMPTS
Row == [state : {"none", "pending", "requested", "recording", "finalizing"} \cup Settled,
        vod : Vod \cup {NoVod}, attempts : Attempts, due : BOOLEAN]
NoRow == [state |-> "none", vod |-> NoVod, attempts |-> 0, due |-> TRUE]
VodRow == [state : {"none", "shell", "ingesting", "finalized", "deleted"},
           of : Recording \cup {NoRecording}]

\* todo: sessions that miss a request.  list: the rows of the pass still to be
\* stepped, as they were read (NoRow: not in it).  at: the row being stepped;
\* list[at] is then the variable `rec` of step(), its vod the variable vodId.
Pc == {"idle", "insert", "next", "create", "name", "ingest", "egress", "record", "drop",
       "unname", "later", "stop", "finalize", "discard", "settle"}
Job == [pc : Pc,
        at : Recording \cup {NoRecording}, todo : SUBSET Recording,
        list : [Recording -> Row], disk : BOOLEAN]
Idle == [pc |-> "idle", at |-> NoRecording, todo |-> {},
         list |-> [r \in Recording |-> NoRow], disk |-> FALSE]

TypeOK ==
  /\ request \in [Recording -> Request]
  /\ over \in [Recording -> BOOLEAN]
  /\ recording \in [Recording -> Row]
  /\ told \in [Recording -> Nat]
  /\ vod \in [Vod -> VodRow]
  /\ job \in [Coordinator -> Job]
  /\ lease \in [holder : Coordinator \cup {NoCoordinator}, fresh : BOOLEAN]
  /\ faults \in 0..MaxFaults

Init ==
  /\ request \in [Recording -> Request]
  /\ over = [r \in Recording |-> FALSE]
  /\ recording = [r \in Recording |-> NoRow]
  /\ told = [r \in Recording |-> 0]
  /\ vod = [v \in Vod |-> [state |-> "none", of |-> NoRecording]]
  /\ job = [c \in Coordinator |-> Idle]
  /\ lease = [holder |-> NoCoordinator, fresh |-> FALSE]
  /\ faults = 0

At(c, pc) == job[c].pc = pc
rec(c) == job[c].list[job[c].at]
Go(c, pc) == job' = [job EXCEPT ![c].pc = pc]
Fault == faults < MaxFaults /\ faults' = faults + 1

\* The step of one row is over: on to the next.
Stepped(c, r) == job' = [job EXCEPT ![c] =
  [@ EXCEPT !.pc = "next", !.at = NoRecording, !.disk = FALSE, !.list[r] = NoRow]]

\* update(id, fields): only the columns named change, whatever the row is by now.
update(r, row) == recording' = [recording EXCEPT ![r] = row]

\* retryLater: read gives the attempts so far, the limit depends on this error.
limit(disk) == IF disk THEN DISK_MAX_ATTEMPTS ELSE MAX_ATTEMPTS
\* Mutant of retryLater: one attempt too many.
retryOnceMore(row, read, disk) ==
  IF read.attempts >= limit(disk)
  THEN [row EXCEPT !.attempts = read.attempts + 1, !.state = "failed"]
  ELSE [row EXCEPT !.attempts = read.attempts + 1, !.due = FALSE]
retryLater(row, read, disk) ==
  IF read.attempts + 1 >= limit(disk)
  THEN [row EXCEPT !.attempts = read.attempts + 1, !.state = "failed"]
  ELSE [row EXCEPT !.attempts = read.attempts + 1, !.due = FALSE]

\* ensureRequests: live sessions without a row.
missing == {r \in Recording : recording[r].state = "none" /\ ~over[r]}

\* Mutant of due: a row left in `requested` by a crash is not picked up.
dueUnlessRequested == {r \in Recording :
  recording[r].due /\ \/ recording[r].state \in {"pending", "finalizing"}
                      \/ recording[r].state = "recording" /\ over[r]}
due == {r \in Recording :
  recording[r].due /\ \/ recording[r].state \in {"pending", "requested", "finalizing"}
                      \/ recording[r].state = "recording" /\ over[r]}

-----------------------------------------------------------------------------
(* The tick                                                                *)

\* takeLease, once per tick.
StartTick(c) ==
  /\ At(c, "idle")
  /\ lease.holder = c \/ ~lease.fresh
  /\ lease' = [holder |-> c, fresh |-> TRUE]
  /\ job' = [job EXCEPT ![c].pc = "insert", ![c].todo = missing]
  /\ UNCHANGED <<request, over, recording, told, vod, faults>>

\* One INSERT per session; UNIQUE(session_id) fails the tick when another
\* coordinator was faster.
Insert(c, r) ==
  /\ At(c, "insert") /\ r \in job[c].todo
  /\ IF recording[r].state = "none"
     THEN /\ update(r, [NoRow EXCEPT !.state = "pending"])
          /\ job' = [job EXCEPT ![c].todo = @ \ {r}]
     ELSE job' = [job EXCEPT ![c] = Idle] /\ UNCHANGED recording
  /\ UNCHANGED <<request, over, told, vod, lease, faults>>

ReadDue(c) ==
  /\ At(c, "insert") /\ job[c].todo = {}
  /\ job' = [job EXCEPT ![c] = [@ EXCEPT !.pc = "next",
       !.list = [r \in Recording |-> IF r \in due THEN recording[r] ELSE NoRow]]]
  /\ UNCHANGED <<request, over, recording, told, vod, lease, faults>>

EndTick(c) ==
  /\ At(c, "next") /\ \A r \in Recording : job[c].list[r].state = "none"
  /\ job' = [job EXCEPT ![c] = Idle]
  /\ UNCHANGED <<request, over, recording, told, vod, lease, faults>>

-----------------------------------------------------------------------------
(* step(rec): the branches it starts with                                  *)

Picked(c, r, states) ==
  /\ At(c, "next") /\ job[c].list[r].state \in states
  /\ UNCHANGED <<request, over, vod, lease, faults>>

\* No recording of JSMPEG: the request fails at its first step, and is told.
RejectJsmpeg(c, r) ==
  /\ Picked(c, r, {"pending"}) /\ request[r].protocol = "jsmpeg"
  /\ update(r, [recording[r] EXCEPT !.state = "failed"])
  /\ Stepped(c, r) /\ UNCHANGED told

Recordable(r) == request[r].protocol # "jsmpeg"

Cancel(c, r) ==
  /\ Picked(c, r, {"pending"}) /\ Recordable(r) /\ over[r]
  /\ update(r, [recording[r] EXCEPT !.state = "cancelled"])
  /\ Stepped(c, r) /\ UNCHANGED told

\* No play URL, or no egress endpoint or video producer yet.
NotReady(c, r) ==
  /\ Picked(c, r, {"pending"}) /\ Recordable(r) /\ ~over[r]
  /\ update(r, retryLater(recording[r], job[c].list[r], FALSE))
  /\ Stepped(c, r) /\ UNCHANGED told

\* A VOD left from before the process died is used again.
Ask(c, r) ==
  /\ Picked(c, r, {"pending"}) /\ Recordable(r) /\ ~over[r]
  /\ job' = [job EXCEPT ![c].at = r,
       ![c].pc = IF job[c].list[r].vod = NoVod THEN "create" ELSE "ingest"]
  /\ UNCHANGED <<recording, told>>

Resume(c, r) ==
  /\ Picked(c, r, {"requested"})
  /\ update(r, [recording[r] EXCEPT !.state = "pending"])
  /\ Stepped(c, r) /\ UNCHANGED told

\* The end of the recording starts; a WebRTC ingest is stopped first.
StartFinalizing(c, r) ==
  /\ Picked(c, r, {"recording", "finalizing"})
  /\ LET row == IF job[c].list[r].state = "recording"
                THEN [recording[r] EXCEPT !.state = "finalizing"] ELSE recording[r]
         seen == IF job[c].list[r].state = "recording" THEN row ELSE job[c].list[r]
     IN  /\ update(r, row)
         /\ job' = [job EXCEPT ![c] = [@ EXCEPT !.at = r, !.list[r] = seen,
              !.pc = IF request[r].protocol = "webrtc" THEN "stop" ELSE "finalize"]]
  /\ UNCHANGED told

-----------------------------------------------------------------------------
(* Asking Media: create the VOD, name it in the row, start the ingest      *)

media == <<request, over, recording, told, lease>>

Fresh(v) == vod[v].state = "none" /\ \A u \in Vod : u < v => vod[u].state # "none"
Make(v, r) == vod' = [vod EXCEPT ![v] = [state |-> "shell", of |-> r]]
Become(v, state) == vod' = [vod EXCEPT ![v].state = state]

CreateVod(c, v) ==
  /\ At(c, "create") /\ Fresh(v)
  /\ Make(v, job[c].at)
  /\ job' = [job EXCEPT ![c] = [@ EXCEPT !.pc = "name", !.list[job[c].at].vod = v]]
  /\ UNCHANGED <<media, faults>>

\* Media made the VOD and its answer did not come.
CreateLost(c, v) ==
  /\ At(c, "create") /\ Fresh(v) /\ Fault
  /\ Make(v, job[c].at)
  /\ Go(c, "unname")
  /\ UNCHANGED media

NameVod(c) ==
  /\ At(c, "name")
  /\ LET row == [recording[job[c].at] EXCEPT !.vod = rec(c).vod, !.state = "requested"]
     IN  /\ update(job[c].at, row)
         /\ job' = [job EXCEPT ![c] = [@ EXCEPT !.pc = "ingest", !.list[job[c].at] = row]]
  /\ UNCHANGED <<request, over, told, vod, lease, faults>>

\* That update fails: the VOD is dropped like after a refusal.  (A row update
\* that fails anywhere else leaves what a crash at that place leaves.)
NameFails(c) ==
  /\ At(c, "name") /\ Fault
  /\ Go(c, "drop")
  /\ UNCHANGED <<media, vod>>

\* Media refuses whatever it has deleted or finalized.
Ingestible(v) == vod[v].state \in {"shell", "ingesting"}

StartIngest(c) ==
  /\ At(c, "ingest") /\ Ingestible(rec(c).vod)
  /\ Become(rec(c).vod, "ingesting")
  /\ Go(c, IF request[job[c].at].protocol = "webrtc" THEN "egress" ELSE "record")
  /\ UNCHANGED <<media, faults>>

\* The answer is lost, or names no ports.
IngestLost(c) ==
  /\ At(c, "ingest") /\ Ingestible(rec(c).vod) /\ Fault
  /\ Become(rec(c).vod, "ingesting")
  /\ Go(c, "drop")
  /\ UNCHANGED media

\* The worker starts sending RTP to Media's ports.
OpenEgress(c) ==
  /\ At(c, "egress")
  /\ Go(c, "record")
  /\ UNCHANGED <<media, vod, faults>>

\* Mutant of Refused: an ingest Media refused counts as started.
RefusedIgnored(c) ==
  /\ \/ At(c, "create") /\ Go(c, "unname")
     \/ \E pc \in {"ingest", "egress"} : At(c, pc) /\ Go(c, "record")
  /\ UNCHANGED <<media, vod, faults>>

\* The call is refused without effect: Media is down, or says no, perhaps for
\* its disk.
Refused(c) ==
  /\ \/ At(c, "create") /\ \E disk \in BOOLEAN :
          job' = [job EXCEPT ![c].pc = "unname", ![c].disk = disk]
     \/ At(c, "ingest") /\ \E disk \in BOOLEAN :
          job' = [job EXCEPT ![c].pc = "drop", ![c].disk = disk]
     \/ At(c, "egress") /\ Go(c, "drop")
  /\ UNCHANGED <<media, vod, faults>>

\* Mutant of Record: the request is told but the row is not moved on.
RecordUnmarked(c) ==
  /\ At(c, "record")
  /\ told' = [told EXCEPT ![job[c].at] = @ + 1]
  /\ Stepped(c, job[c].at)
  /\ UNCHANGED <<request, over, recording, vod, lease, faults>>

Record(c) ==
  /\ At(c, "record")
  /\ update(job[c].at, [recording[job[c].at] EXCEPT !.state = "recording",
                                                    !.attempts = 0, !.due = TRUE])
  /\ told' = [told EXCEPT ![job[c].at] = @ + 1]
  /\ Stepped(c, job[c].at)
  /\ UNCHANGED <<request, over, vod, lease, faults>>

\* Mutant of DropVod: the shell is forgotten instead of deleted.
DropNothing(c) == At(c, "drop") /\ Go(c, "unname") /\ UNCHANGED <<media, vod, faults>>

DropVod(c) ==
  /\ At(c, "drop")
  /\ Become(rec(c).vod, "deleted")
  /\ Go(c, "unname")
  /\ UNCHANGED <<media, faults>>

DropFails(c) ==
  /\ At(c, "drop") /\ Fault
  /\ Go(c, "unname")
  /\ UNCHANGED <<media, vod>>

Unname(c) ==
  /\ At(c, "unname")
  /\ update(job[c].at, [recording[job[c].at] EXCEPT !.vod = NoVod, !.state = "pending"])
  /\ job' = [job EXCEPT ![c] = [@ EXCEPT !.pc = "later", !.list[job[c].at].vod = NoVod]]
  /\ UNCHANGED <<request, over, told, vod, lease, faults>>

RetryLater(c) ==
  /\ At(c, "later")
  /\ update(job[c].at,
            retryLater(recording[job[c].at], recording[job[c].at], job[c].disk))
  /\ Stepped(c, job[c].at)
  /\ UNCHANGED <<request, over, told, vod, lease, faults>>

-----------------------------------------------------------------------------
(* Finalizing                                                              *)

StopIngest(c) ==
  /\ At(c, "stop")
  /\ Go(c, "finalize")
  /\ UNCHANGED <<media, vod, faults>>

Finalize(c) ==
  /\ At(c, "finalize") /\ vod[rec(c).vod].state = "ingesting"
  /\ Become(rec(c).vod, "finalized")
  /\ Go(c, IF request[job[c].at].mode = "clips" THEN "discard" ELSE "settle")
  /\ UNCHANGED <<media, faults>>

\* 409: Media has finalized it already, which counts as success.
FinalizedAlready(c) ==
  /\ At(c, "finalize") /\ vod[rec(c).vod].state = "finalized"
  /\ Go(c, "settle")
  /\ UNCHANGED <<media, vod, faults>>

FinalizeLost(c) ==
  /\ At(c, "finalize") /\ vod[rec(c).vod].state = "ingesting" /\ Fault
  /\ Become(rec(c).vod, "finalized")
  /\ update(job[c].at, retryLater(recording[job[c].at], rec(c), FALSE))
  /\ Stepped(c, job[c].at)
  /\ UNCHANGED <<request, over, told, lease>>

\* Stopping or finalizing is refused for any other reason.
FinalizeRefused(c) ==
  /\ At(c, "stop") \/ At(c, "finalize")
  /\ update(job[c].at, retryLater(recording[job[c].at], rec(c), FALSE))
  /\ Stepped(c, job[c].at)
  /\ UNCHANGED <<request, over, told, vod, lease, faults>>

\* A clips-only VOD is deleted once it is finalized; a failure is ignored.
DiscardClips(c) ==
  /\ At(c, "discard")
  /\ Become(rec(c).vod, "deleted")
  /\ Go(c, "settle")
  /\ UNCHANGED <<media, faults>>

DiscardFails(c) ==
  /\ At(c, "discard") /\ Fault
  /\ Go(c, "settle")
  /\ UNCHANGED <<media, vod>>

Settle(c) ==
  /\ At(c, "settle")
  /\ update(job[c].at, [recording[job[c].at] EXCEPT !.state = "finalized"])
  /\ Stepped(c, job[c].at)
  /\ UNCHANGED <<request, over, told, vod, lease, faults>>

-----------------------------------------------------------------------------
(* The world around                                                        *)

\* The coordinator dies and is started again.
Crash(c) ==
  /\ ~At(c, "idle") /\ Fault
  /\ job' = [job EXCEPT ![c] = Idle]
  /\ UNCHANGED <<media, vod>>

\* A coordinator's tick, or its rest between two, outlasts the lease.
LeaseLapses ==
  /\ lease.fresh
  /\ lease' = [lease EXCEPT !.fresh = FALSE]
  /\ UNCHANGED <<request, over, recording, told, vod, job, faults>>

\* next_attempt_at comes.
Wait(r) ==
  /\ ~recording[r].due
  /\ recording' = [recording EXCEPT ![r].due = TRUE]
  /\ UNCHANGED <<request, over, told, vod, job, lease, faults>>

SessionEnds(r) ==
  /\ ~over[r]
  /\ over' = [over EXCEPT ![r] = TRUE]
  /\ UNCHANGED <<request, recording, told, vod, job, lease, faults>>

\* Media's ffmpeg sees the source end and Media finalizes by itself.
SourceEnds(v) ==
  /\ vod[v].state = "ingesting" /\ over[vod[v].of]
  /\ Become(v, "finalized")
  /\ UNCHANGED <<media, job, faults>>

Branch(c, r) ==
  \/ RejectJsmpeg(c, r) \/ Cancel(c, r) \/ NotReady(c, r) \/ Ask(c, r)
  \/ Resume(c, r) \/ StartFinalizing(c, r)

AskMedia(c) ==
  \/ \E v \in Vod : CreateVod(c, v)
  \/ NameVod(c) \/ StartIngest(c) \/ OpenEgress(c) \/ Refused(c) \/ Record(c)
  \/ DropVod(c) \/ Unname(c) \/ RetryLater(c)

CloseMedia(c) ==
  \/ StopIngest(c) \/ Finalize(c) \/ FinalizedAlready(c) \/ FinalizeRefused(c)
  \/ DiscardClips(c) \/ Settle(c)

\* What a coordinator does when nothing goes wrong but refusals.
Work(c) ==
  \/ StartTick(c) \/ ReadDue(c) \/ EndTick(c)
  \/ \E r \in Recording : Insert(c, r) \/ Branch(c, r)
  \/ AskMedia(c) \/ CloseMedia(c)

Trouble(c) ==
  \/ \E v \in Vod : CreateLost(c, v)
  \/ NameFails(c) \/ IngestLost(c) \/ DropFails(c) \/ FinalizeLost(c) \/ DiscardFails(c)
  \/ Crash(c)

Next ==
  \/ \E c \in Coordinator : Work(c) \/ Trouble(c)
  \/ LeaseLapses
  \/ \E r \in Recording : Wait(r) \/ SessionEnds(r)
  \/ \E v \in Vod : SourceEnds(v)

Spec == Init /\ [][Next]_vars

\* The coordinator's timer keeps ticking and its calls are answered or time
\* out; back-offs end.  Sessions, Media and faults owe nothing.
Fairness ==
  /\ \A c \in Coordinator : WF_vars(Work(c))
  /\ \A r \in Recording : WF_vars(Wait(r))

FairSpec == Spec /\ Fairness

-----------------------------------------------------------------------------
(* Properties                                                              *)

Kept(v) == vod[v].state \in {"shell", "ingesting", "finalized"}
Named(v) == \E r \in Recording : recording[r].vod = v
InHand(v) == \E c \in Coordinator : job[c].at # NoRecording /\ rec(c).vod = v
Leaked == {v \in Vod : Kept(v) /\ ~Named(v) /\ ~InHand(v)}

\* "drop the empty shell so it never shows as a 0:00 VOD" (recordings.js): a VOD
\* that no row names is deleted, however often Media refuses; each one that
\* stays behind cost a crash, a lost answer or a failed call of its own.
LeaksCostFaults == Cardinality(Leaked) <= faults

\* A session is recorded once: openre.recording.requested is told at most once,
\* through retries, crashes and restarts.
RequestedOnce == \A r \in Recording : told[r] <= 1

\* A row that says `recording` names a VOD Media ingests, or finalized when the
\* source ended, never one that was dropped; and a row that says `finalized` names
\* one Media finalized, which only a clips-only recording may have deleted since.
RecordingIsReal ==
  \A r \in Recording : recording[r].state \in {"recording", "finalized"} =>
    /\ recording[r].vod \in Vod
    /\ vod[recording[r].vod].state \in
         {"finalized"} \cup (IF recording[r].state = "recording" THEN {"ingesting"}
                            ELSE IF request[r].mode = "clips" THEN {"deleted"} ELSE {})

\* The promise of RecordingLifecycle: a request walks its states, is announced with
\* one film of its own, stays with it, and is given up on after its attempts.
filmOf(r) == IF told[r] > 0 THEN recording[r].vod ELSE NoVod
footageOf(r) == IF filmOf(r) \in Vod THEN vod[filmOf(r)].state ELSE "none"
Lifecycle == INSTANCE RecordingLifecycle WITH
  Film <- Vod, NoFilm <- NoVod, FewTries <- MAX_ATTEMPTS, ManyTries <- DISK_MAX_ATTEMPTS,
  asked     <- request,
  state     <- [r \in Recording |-> recording[r].state],
  tries     <- [r \in Recording |-> recording[r].attempts],
  announced <- told,
  film      <- [r \in Recording |-> filmOf(r)],
  footage   <- [r \in Recording |-> footageOf(r)]
LifecycleSpec == Lifecycle!Spec

\* Once the session is over its recording comes to an end, whatever Media says.
RecordingSettles ==
  \A r \in Recording :
    (over[r] /\ recording[r].state # "none") ~> recording[r].state \in Settled
=============================================================================
