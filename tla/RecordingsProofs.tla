--------------------------- MODULE RecordingsProofs ---------------------------
(***************************************************************************)
(* What Recordings promises for every number of recordings and VODs, every *)
(* limit on attempts and any number of faults, when one coordinator runs:  *)
(* its invariants, and that every step is a step of RecordingLifecycle.    *)
(***************************************************************************)
EXTENDS Recordings, FiniteSetTheorems, TLAPS

USE RecordingAssumption DEF RecordingAssumption

-----------------------------------------------------------------------------
(* Types                                                                   *)

LEMMA RetryType ==
  ASSUME NEW row \in Row, NEW read \in Row, NEW disk \in BOOLEAN,
         read.attempts < DISK_MAX_ATTEMPTS
  PROVE  /\ retryLater(row, read, disk) \in Row
         /\ retryLater(row, read, disk).state \in {row.state, "failed"}
         /\ retryLater(row, read, disk).vod = row.vod
         /\ \/ retryLater(row, read, disk).state = "failed"
            \/ retryLater(row, read, disk).attempts < DISK_MAX_ATTEMPTS
<1> DEFINE n == read.attempts + 1
<1>1. n \in Attempts
  BY DEF Row, Attempts
<1>2. /\ [row EXCEPT !.attempts = n, !.state = "failed"] \in Row
      /\ [row EXCEPT !.attempts = n, !.due = FALSE] \in Row
  BY <1>1 DEF Row, Settled
<1>3. n < limit(disk) => n < DISK_MAX_ATTEMPTS
  BY DEF limit, Row, Attempts
<1>4. limit(disk) \in Nat
  BY DEF limit
<1>5. n \in Nat
  BY <1>1 DEF Attempts
<1>6. CASE n >= limit(disk)
  <2>1. retryLater(row, read, disk) = [row EXCEPT !.attempts = n, !.state = "failed"]
    BY <1>6 DEF retryLater
  <2>2. QED BY <2>1, <1>2 DEF Row
<1>7. CASE n < limit(disk)
  <2>1. retryLater(row, read, disk) = [row EXCEPT !.attempts = n, !.due = FALSE]
    BY <1>7, <1>4, <1>5 DEF retryLater
  <2>2. QED BY <2>1, <1>2, <1>3, <1>7 DEF Row
<1>8. QED BY <1>4, <1>5, <1>6, <1>7

LEMMA RowTypes ==
  /\ NoRow \in Row /\ [NoRow EXCEPT !.state = "pending"] \in Row
  /\ Idle \in Job
<1>1. 0 \in Attempts
  BY DEF Attempts
<1>2. NoRow \in Row
  BY <1>1 DEF NoRow, Row
<1>3. [NoRow EXCEPT !.state = "pending"] \in Row
  BY <1>2 DEF Row
<1>4. Idle \in Job
  BY <1>2 DEF Idle, Job, Pc
<1>5. QED BY <1>2, <1>3, <1>4

LEMMA JobFields ==
  ASSUME NEW j \in Job
  PROVE  /\ \A pc \in Pc : [j EXCEPT !.pc = pc] \in Job
         /\ \A at \in Recording \cup {NoRecording} : [j EXCEPT !.at = at] \in Job
         /\ \A todo \in SUBSET Recording : [j EXCEPT !.todo = todo] \in Job
         /\ \A list \in [Recording -> Row] : [j EXCEPT !.list = list] \in Job
         /\ \A r \in Recording : \A row \in Row : [j EXCEPT !.list[r] = row] \in Job
         /\ \A disk \in BOOLEAN : [j EXCEPT !.disk = disk] \in Job
BY DEF Job

\* A row keeps its type under the updates the code makes.
LEMMA UpdateType ==
  ASSUME recording \in [Recording -> Row], NEW r \in Recording, NEW row \in Row,
         update(r, row)
  PROVE  recording' \in [Recording -> Row]
BY DEF update

LEMMA SteppedType ==
  ASSUME job \in [Coordinator -> Job], NEW c \in Coordinator, NEW r \in Recording,
         Stepped(c, r)
  PROVE  job' \in [Coordinator -> Job]
<1>1. [job[c] EXCEPT !.pc = "next"] \in Job
  BY JobFields DEF Pc
<1>2. [[job[c] EXCEPT !.pc = "next"] EXCEPT !.at = NoRecording] \in Job
  BY <1>1, JobFields
<1>3. [[[job[c] EXCEPT !.pc = "next"] EXCEPT !.at = NoRecording] EXCEPT !.disk = FALSE] \in Job
  BY <1>2, JobFields
<1>4. [[[[job[c] EXCEPT !.pc = "next"] EXCEPT !.at = NoRecording] EXCEPT !.disk = FALSE]
        EXCEPT !.list[r] = NoRow] \in Job
  BY <1>3, JobFields, RowTypes
<1>5. QED BY <1>4 DEF Stepped

LEMMA GoType ==
  ASSUME job \in [Coordinator -> Job], NEW c \in Coordinator,
         NEW pc \in {"create", "name", "ingest", "egress", "record", "drop", "unname",
                     "later", "stop", "finalize", "discard", "settle"},
         Go(c, pc)
  PROVE  job' \in [Coordinator -> Job]
BY JobFields DEF Go, Pc

LEMMA BecomeType ==
  ASSUME vod \in [Vod -> VodRow], NEW v,
         NEW state \in {"ingesting", "finalized", "deleted"}, Become(v, state)
  PROVE  vod' \in [Vod -> VodRow]
BY DEF Become, VodRow

-----------------------------------------------------------------------------
(* The inductive invariant                                                 *)

Real(v, r) == vod[v].state \in
  {"finalized"} \cup (IF request[r].mode = "clips" THEN {"deleted"} ELSE {})

\* The VOD a row names was made for it; and what the row's state says of it.
RowOK(r) ==
  LET row == recording[r]
  IN  /\ row.vod \in Vod => vod[row.vod].of = r /\ vod[row.vod].state # "none"
      /\ row.state = "none" => row.vod = NoVod
      /\ row.state # "failed" => row.attempts < DISK_MAX_ATTEMPTS
      /\ row.state \in {"recording", "finalizing", "finalized"} => row.vod \in Vod
      /\ row.state = "recording" => vod[row.vod].state \in {"ingesting", "finalized"}
      /\ row.state = "finalizing" => vod[row.vod].state = "ingesting" \/ Real(row.vod, r)
      /\ row.state = "finalized" => Real(row.vod, r)
      /\ told[r] <= 1
      /\ row.state \in {"none", "pending", "requested"} => told[r] = 0

\* The list of the pass is what the table still says, but for the row at work.
ListOK(c) ==
  /\ At(c, "idle") \/ At(c, "insert") => \A r \in Recording : job[c].list[r].state = "none"
  /\ \A r \in Recording : r # job[c].at /\ job[c].list[r].state # "none" =>
       /\ job[c].list[r] = recording[r] /\ recording[r].due
       /\ recording[r].state \in {"pending", "requested", "recording", "finalizing"}

Asking == {"create", "name", "ingest", "egress", "record", "drop", "unname"}
Closing == {"stop", "finalize", "discard", "settle"}

\* Where a step is: what it holds, and what its row says meanwhile.
HandOK(c) ==
  LET j == job[c]
      row == recording[j.at]
      v == rec(c).vod
  IN  /\ (j.at = NoRecording) <=> (j.pc \in {"idle", "insert", "next"})
      /\ j.at # NoRecording =>
           /\ v \in Vod => vod[v].of = j.at /\ vod[v].state # "none"
           /\ rec(c).attempts < DISK_MAX_ATTEMPTS
           /\ j.pc \in Asking => row.state \in {"pending", "requested"}
           /\ j.pc = "later" => row.state = "pending"
           /\ j.pc \in Closing => row.state = "finalizing"
           /\ j.pc \in {"create", "later"} => v = NoVod
           /\ j.pc \in {"create", "name", "later"} => row.vod = NoVod
           /\ j.pc \in {"name", "drop"} => v \in Vod
           /\ j.pc \in {"drop", "unname"} => row.vod \in {NoVod, v}
           /\ j.pc \in {"ingest", "egress", "record"} \cup Closing => row.vod = v /\ v \in Vod
           /\ j.pc \in {"egress", "record"} => vod[v].state \in {"ingesting", "finalized"}
           /\ j.pc = "discard" => request[j.at].mode = "clips"
           /\ j.pc \in {"discard", "settle"} => Real(v, j.at)

Inv(c) ==
  /\ \A r \in Recording : RowOK(r)
  /\ ListOK(c)
  /\ HandOK(c)

Sound(c) == TypeOK /\ Inv(c)

-----------------------------------------------------------------------------
(* What the kinds of steps have in common                                  *)

LEMMA RowsKept ==
  ASSUME NEW c \in Coordinator, Sound(c), UNCHANGED <<request, recording, told, vod>>
  PROVE  \A r \in Recording : RowOK(r)'
BY DEF Sound, Inv, RowOK, Real

\* Only the row of r, and what is told of it, changes.
LEMMA RowsKeptBut ==
  ASSUME NEW c \in Coordinator, Sound(c), NEW r \in Recording, NEW row,
         update(r, row), UNCHANGED <<request, vod>>,
         \A s \in Recording : s # r => told'[s] = told[s],
         RowOK(r)'
  PROVE  \A s \in Recording : RowOK(s)'
<1>1. ASSUME NEW s \in Recording, s # r
      PROVE  RowOK(s)'
  <2>1. recording'[s] = recording[s] /\ told'[s] = told[s]
    BY <1>1 DEF update, Sound, TypeOK
  <2>2. RowOK(s)
    BY DEF Sound, Inv
  <2>3. QED BY <2>1, <2>2 DEF RowOK, Real
<1>2. QED BY <1>1

\* Only VOD v changes, and it was made for r.
LEMMA RowsKeptButVod ==
  ASSUME NEW c \in Coordinator, Sound(c), NEW r \in Recording, NEW v \in Vod, NEW state,
         vod[v].of = r, Become(v, state), UNCHANGED <<request, recording, told>>,
         RowOK(r)'
  PROVE  \A s \in Recording : RowOK(s)'
<1>1. ASSUME NEW s \in Recording, s # r
      PROVE  RowOK(s)'
  <2>1. RowOK(s)
    BY DEF Sound, Inv
  <2>2. recording[s].vod # v
    BY <1>1, <2>1 DEF RowOK
  <2>3. vod'[recording[s].vod] = vod[recording[s].vod]
    BY <2>2 DEF Become, Sound, TypeOK
  <2>4. QED BY <2>1, <2>3 DEF RowOK, Real
<1>2. QED BY <1>1

\* A step of row r is over.
LEMMA StepEnds ==
  ASSUME NEW c \in Coordinator, Sound(c), NEW r \in Recording, NEW row \in Row,
         job[c].at \in {r, NoRecording}, update(r, row), Stepped(c, r)
  PROVE  /\ job' \in [Coordinator -> Job] /\ recording' \in [Recording -> Row]
         /\ ListOK(c)' /\ HandOK(c)'
<1>1. job' \in [Coordinator -> Job] /\ recording' \in [Recording -> Row]
  BY UpdateType, SteppedType DEF Sound, TypeOK
<1>2. /\ job'[c].pc = "next" /\ job'[c].at = NoRecording
      /\ job'[c].list = [job[c].list EXCEPT ![r] = NoRow]
  BY DEF Stepped, Sound, TypeOK, Job
<1>3. ListOK(c)'
  <2>1. ASSUME NEW s \in Recording, job'[c].list[s].state # "none"
        PROVE  s # r /\ job'[c].list[s] = job[c].list[s] /\ recording'[s] = recording[s]
    BY <1>2, <2>1 DEF Sound, TypeOK, Job, update, NoRow
  <2>2. QED BY <1>2, <2>1 DEF Sound, Inv, ListOK, At
<1>4. HandOK(c)'
  BY <1>2 DEF HandOK
<1>5. QED BY <1>1, <1>3, <1>4

-----------------------------------------------------------------------------
(* The tick                                                                *)

LEMMA TickSteps ==
  ASSUME NEW c \in Coordinator, Coordinator = {c}, Sound(c),
         StartTick(c) \/ ReadDue(c) \/ EndTick(c) \/ Crash(c)
  PROVE  Sound(c)'
<1>1. \A r \in Recording : RowOK(r)'
  BY RowsKept DEF StartTick, ReadDue, EndTick, Crash, media
<1>2. CASE StartTick(c)
  <2>1. missing \in SUBSET Recording
    BY DEF missing
  <2>2. job' \in [Coordinator -> Job]
    <3>1. [[job[c] EXCEPT !.pc = "insert"] EXCEPT !.todo = missing] \in Job
      <4>1. [job[c] EXCEPT !.pc = "insert"] \in Job
        BY JobFields DEF Sound, TypeOK, Pc
      <4>2. QED BY <2>1, <4>1, JobFields
    <3>2. QED BY <1>2, <3>1 DEF Sound, TypeOK, StartTick
  <2>3. TypeOK'
    BY <1>2, <2>2 DEF Sound, TypeOK, StartTick
  <2>4. ListOK(c)'
    BY <1>2 DEF Sound, TypeOK, Inv, StartTick, ListOK, At, Job
  <2>5. HandOK(c)'
    BY <1>2 DEF Sound, TypeOK, Inv, StartTick, HandOK, At, Job
  <2>6. QED BY <1>1, <2>3, <2>4, <2>5 DEF Sound, Inv
<1>3. CASE ReadDue(c)
  <2>1. /\ job'[c].pc = "next" /\ job'[c].at = job[c].at
        /\ job'[c].list = [r \in Recording |-> IF r \in due THEN recording[r] ELSE NoRow]
    BY <1>3 DEF Sound, TypeOK, ReadDue, Job
  <2>2. job' \in [Coordinator -> Job]
    <3>1. [r \in Recording |-> IF r \in due THEN recording[r] ELSE NoRow] \in [Recording -> Row]
      BY RowTypes DEF Sound, TypeOK
    <3>2. [job[c] EXCEPT !.pc = "next"] \in Job
      BY JobFields DEF Sound, TypeOK, Pc
    <3>3. QED BY <1>3, <3>1, <3>2, JobFields DEF Sound, TypeOK, ReadDue
  <2>3. TypeOK'
    BY <1>3, <2>2 DEF Sound, TypeOK, ReadDue
  <2>4. ListOK(c)'
    BY <1>3, <2>1 DEF ReadDue, ListOK, At, NoRow, due
  <2>5. HandOK(c)'
    BY <1>3, <2>1 DEF Sound, TypeOK, Inv, ReadDue, HandOK, At
  <2>6. QED BY <1>1, <2>3, <2>4, <2>5 DEF Sound, Inv
<1>4. CASE EndTick(c) \/ Crash(c)
  <2>1. job' = [job EXCEPT ![c] = Idle]
    BY <1>4 DEF EndTick, Crash
  <2>2. TypeOK'
    BY <1>4, <2>1, RowTypes DEF Sound, TypeOK, EndTick, Crash, media, Fault
  <2>3. job'[c] = Idle
    BY <2>1 DEF Sound, TypeOK
  <2>4. ListOK(c)' /\ HandOK(c)'
    BY <2>3 DEF ListOK, HandOK, Idle, At, NoRow
  <2>5. QED BY <1>1, <2>2, <2>4 DEF Sound, Inv
<1>5. QED BY <1>2, <1>3, <1>4

LEMMA InsertStep ==
  ASSUME NEW c \in Coordinator, Coordinator = {c}, Sound(c), NEW r \in Recording, Insert(c, r)
  PROVE  Sound(c)'
<1>1. job[c].at = NoRecording /\ \A s \in Recording : job[c].list[s].state = "none"
  BY DEF Sound, Inv, HandOK, ListOK, Insert, At
<1>2. /\ job' \in [Coordinator -> Job] /\ job'[c].at = NoRecording
      /\ job'[c].pc \in {"idle", "insert"}
      /\ \A s \in Recording : job'[c].list[s].state = "none"
  <2>1. CASE recording[r].state = "none"
    <3>1. job' = [job EXCEPT ![c].todo = @ \ {r}]
      BY <2>1 DEF Insert
    <3>2. job' \in [Coordinator -> Job]
      BY <3>1 DEF Sound, TypeOK, Job
    <3>3. QED BY <1>1, <3>1, <3>2 DEF Sound, TypeOK, Job, Insert, At
  <2>2. CASE recording[r].state # "none"
    <3>1. job' = [job EXCEPT ![c] = Idle]
      BY <2>2 DEF Insert
    <3>2. job' \in [Coordinator -> Job] /\ job'[c] = Idle
      BY <3>1, RowTypes DEF Sound, TypeOK
    <3>3. QED BY <3>2 DEF Idle, NoRow
  <2>3. QED BY <2>1, <2>2
<1>3. ListOK(c)' /\ HandOK(c)'
  BY <1>2 DEF ListOK, HandOK, At
<1>4. CASE recording[r].state = "none"
  <2> DEFINE row == [NoRow EXCEPT !.state = "pending"]
  <2>1. update(r, row) /\ UNCHANGED <<request, over, told, vod, lease, faults>>
    BY <1>4 DEF Insert
  <2>2. TypeOK'
    BY <1>2, <2>1, RowTypes, UpdateType DEF Sound, TypeOK
  <2>3. recording'[r] = row
    BY <2>1 DEF update, Sound, TypeOK
  <2>4. RowOK(r)
    BY DEF Sound, Inv
  <2>5. RowOK(r)'
    BY <1>4, <2>1, <2>3, <2>4 DEF RowOK, NoRow, Vod, NoVod
  <2>6. \A s \in Recording : RowOK(s)'
    BY <2>1, <2>5, RowsKeptBut
  <2>7. QED BY <1>3, <2>2, <2>6 DEF Sound, Inv
<1>5. CASE recording[r].state # "none"
  <2>1. UNCHANGED <<request, over, recording, told, vod, lease, faults>>
    BY <1>5 DEF Insert
  <2>2. TypeOK'
    BY <1>2, <2>1 DEF Sound, TypeOK
  <2>3. QED BY <1>3, <2>1, <2>2, RowsKept DEF Sound, Inv
<1>6. QED BY <1>4, <1>5

-----------------------------------------------------------------------------
(* The branches of step                                                    *)

\* The row picked is the one in the table.
LEMMA PickedRow ==
  ASSUME NEW c \in Coordinator, Sound(c), NEW r \in Recording, NEW states,
         Picked(c, r, states), "none" \notin states
  PROVE  /\ job[c].at = NoRecording /\ job[c].pc = "next"
         /\ job[c].list[r] = recording[r] /\ recording[r] \in Row
         /\ recording[r].state \in states
         /\ recording[r].state \in {"pending", "requested", "recording", "finalizing"}
         /\ recording[r].attempts < DISK_MAX_ATTEMPTS
         /\ RowOK(r)
<1>1. job[c].at = NoRecording /\ job[c].pc = "next" /\ job[c].list[r].state # "none"
  BY DEF Picked, At, Sound, Inv, HandOK
<1>2. job[c].list[r] = recording[r] /\ recording[r].state # "failed"
  BY <1>1 DEF Sound, Inv, ListOK
<1>3. QED BY <1>1, <1>2 DEF Sound, TypeOK, Inv, ListOK, RowOK, Picked

LEMMA BranchSteps ==
  ASSUME NEW c \in Coordinator, Coordinator = {c}, Sound(c), NEW r \in Recording,
         RejectJsmpeg(c, r) \/ Cancel(c, r) \/ NotReady(c, r) \/ Resume(c, r)
  PROVE  Sound(c)'
<1>1. /\ job[c].at = NoRecording /\ recording[r] \in Row
      /\ job[c].list[r] = recording[r]
      /\ recording[r].state \in {"pending", "requested"}
      /\ recording[r].attempts < DISK_MAX_ATTEMPTS
      /\ RowOK(r)
  <2>1. PICK states \in SUBSET {"pending", "requested"} : Picked(c, r, states)
    BY DEF RejectJsmpeg, Cancel, NotReady, Resume
  <2>2. QED BY <2>1, PickedRow
<1>2. PICK row \in Row : /\ update(r, row) /\ row.vod = recording[r].vod
                         /\ row.state \in {"pending", "failed", "cancelled"}
                         /\ row.state # "failed" => row.attempts < DISK_MAX_ATTEMPTS
                         /\ row.state = "cancelled" => recording[r].state = "pending"
  <2>1. CASE NotReady(c, r)
    <3>1. update(r, retryLater(recording[r], recording[r], FALSE)) /\ recording[r].state = "pending"
      BY <1>1, <2>1 DEF NotReady, Picked
    <3>2. QED BY <1>1, <3>1, RetryType
  <2>2. CASE RejectJsmpeg(c, r)
    <3>1. [recording[r] EXCEPT !.state = "failed"] \in Row
      BY <1>1 DEF Row, Settled
    <3>2. QED BY <1>1, <2>2, <3>1 DEF RejectJsmpeg, Row
  <2>3. CASE Cancel(c, r)
    <3>1. [recording[r] EXCEPT !.state = "cancelled"] \in Row
      BY <1>1 DEF Row, Settled
    <3>2. QED BY <1>1, <2>3, <3>1 DEF Cancel, Picked, Row
  <2>4. CASE Resume(c, r)
    <3>1. [recording[r] EXCEPT !.state = "pending"] \in Row
      BY <1>1 DEF Row
    <3>2. QED BY <1>1, <2>4, <3>1 DEF Resume, Row
  <2>5. QED BY <2>1, <2>2, <2>3, <2>4
<1>3. Stepped(c, r) /\ UNCHANGED <<request, over, vod, lease, faults, told>>
  BY DEF RejectJsmpeg, Cancel, NotReady, Resume, Picked
<1>4. /\ job' \in [Coordinator -> Job] /\ recording' \in [Recording -> Row]
      /\ ListOK(c)' /\ HandOK(c)'
  BY <1>1, <1>2, <1>3, StepEnds
<1>5. TypeOK'
  BY <1>3, <1>4 DEF Sound, TypeOK
<1>6. recording'[r] = row
  BY <1>2 DEF update, Sound, TypeOK
<1>7. RowOK(r)'
  BY <1>1, <1>2, <1>3, <1>6 DEF RowOK
<1>8. \A s \in Recording : RowOK(s)'
  BY <1>2, <1>3, <1>7, RowsKeptBut
<1>9. QED BY <1>4, <1>5, <1>8 DEF Sound, Inv

LEMMA AskStep ==
  ASSUME NEW c \in Coordinator, Coordinator = {c}, Sound(c), NEW r \in Recording, Ask(c, r)
  PROVE  Sound(c)'
<1>1. /\ job[c].at = NoRecording /\ recording[r] \in Row
      /\ job[c].list[r] = recording[r] /\ recording[r].state = "pending"
      /\ recording[r].attempts < DISK_MAX_ATTEMPTS /\ RowOK(r)
  BY PickedRow DEF Ask
<1> DEFINE pc == IF recording[r].vod = NoVod THEN "create" ELSE "ingest"
<1>2. /\ job' = [job EXCEPT ![c].at = r, ![c].pc = pc]
      /\ UNCHANGED <<request, over, recording, told, vod, lease, faults>>
  BY <1>1 DEF Ask, Picked
<1>3. /\ job'[c].at = r /\ job'[c].pc = pc /\ job'[c].list = job[c].list
      /\ job' \in [Coordinator -> Job]
  <2>1. [job[c] EXCEPT !.at = r] \in Job
    BY JobFields DEF Sound, TypeOK
  <2>2. [[job[c] EXCEPT !.at = r] EXCEPT !.pc = pc] \in Job
    BY <2>1, JobFields DEF Pc
  <2>3. job' = [job EXCEPT ![c] = [[job[c] EXCEPT !.at = r] EXCEPT !.pc = pc]]
    BY <1>2 DEF Sound, TypeOK
  <2>4. QED BY <2>2, <2>3 DEF Sound, TypeOK, Job
<1>4. TypeOK'
  BY <1>2, <1>3 DEF Sound, TypeOK
<1>5. ListOK(c)'
  BY <1>1, <1>2, <1>3 DEF Sound, Inv, ListOK, At
<1>6. recording[r].vod # NoVod => recording[r].vod \in Vod
  BY <1>1 DEF Row
<1>7. HandOK(c)'
  BY <1>1, <1>2, <1>3, <1>6 DEF HandOK, rec, RowOK, Asking, Closing
<1>8. QED BY <1>2, <1>4, <1>5, <1>7, RowsKept DEF Sound, Inv

LEMMA StartFinalizingStep ==
  ASSUME NEW c \in Coordinator, Coordinator = {c}, Sound(c), NEW r \in Recording,
         StartFinalizing(c, r)
  PROVE  Sound(c)'
<1>1. /\ job[c].at = NoRecording /\ recording[r] \in Row
      /\ job[c].list[r] = recording[r] /\ recording[r].state \in {"recording", "finalizing"}
      /\ recording[r].attempts < DISK_MAX_ATTEMPTS /\ RowOK(r)
  BY PickedRow DEF StartFinalizing
<1> DEFINE row == [recording[r] EXCEPT !.state = "finalizing"]
           pc == IF request[r].protocol = "webrtc" THEN "stop" ELSE "finalize"
<1>2. recording[r].state = "finalizing" => row = recording[r]
  BY <1>1 DEF Row
<1>3. /\ update(r, row)
      /\ job' = [job EXCEPT ![c] = [@ EXCEPT !.at = r, !.list[r] = row, !.pc = pc]]
      /\ UNCHANGED <<request, over, vod, lease, faults, told>>
  BY <1>1, <1>2 DEF StartFinalizing, Picked
<1>4. row \in Row
  BY <1>1 DEF Row
<1>5. /\ job'[c].at = r /\ job'[c].pc = pc
      /\ job'[c].list = [job[c].list EXCEPT ![r] = row]
      /\ job' \in [Coordinator -> Job]
  <2>1. [job[c] EXCEPT !.at = r] \in Job
    BY JobFields DEF Sound, TypeOK
  <2>2. [[job[c] EXCEPT !.at = r] EXCEPT !.list[r] = row] \in Job
    BY <1>4, <2>1, JobFields
  <2>3. [[[job[c] EXCEPT !.at = r] EXCEPT !.list[r] = row] EXCEPT !.pc = pc] \in Job
    BY <2>2, JobFields DEF Pc
  <2>4. QED BY <1>3, <2>3 DEF Sound, TypeOK, Job
<1>6. recording' \in [Recording -> Row] /\ recording'[r] = row
  BY <1>3, <1>4 DEF update, Sound, TypeOK
<1>7. TypeOK'
  BY <1>3, <1>5, <1>6 DEF Sound, TypeOK
<1>8. ListOK(c)'
  <2>1. ASSUME NEW s \in Recording, s # r
        PROVE  recording'[s] = recording[s] /\ job'[c].list[s] = job[c].list[s]
    BY <1>3, <1>5, <2>1 DEF update, Sound, TypeOK, Job
  <2>2. QED BY <1>1, <1>5, <2>1 DEF Sound, Inv, ListOK, At
<1>9. RowOK(r)'
  BY <1>1, <1>3, <1>4, <1>6 DEF RowOK, Real, Row
<1>10. job'[c].list[r] = row
  BY <1>5 DEF Sound, TypeOK, Job
<1>11. row.vod = recording[r].vod /\ row.attempts = recording[r].attempts /\ row.state = "finalizing"
  BY <1>4 DEF Row
<1>12. HandOK(c)'
  <2>1. row.vod \in Vod /\ vod'[row.vod].of = r /\ vod'[row.vod].state # "none"
    BY <1>1, <1>3, <1>11 DEF RowOK
  <2>2. pc \in {"stop", "finalize"}
    OBVIOUS
  <2>3. QED BY <1>1, <1>5, <1>6, <1>10, <1>11, <2>1, <2>2 DEF HandOK, rec, Asking, Closing
<1>13. QED BY <1>3, <1>7, <1>8, <1>9, <1>12, RowsKeptBut DEF Sound, Inv

-----------------------------------------------------------------------------
(* Asking Media, and finalizing                                            *)

LEMMA GoFields ==
  ASSUME NEW c \in Coordinator, Sound(c), NEW pc, Go(c, pc)
  PROVE  job'[c].pc = pc /\ job'[c].at = job[c].at /\ job'[c].list = job[c].list
BY DEF Go, Sound, TypeOK, Job

\* The list is not touched while a step goes on.
LEMMA ListKept ==
  ASSUME NEW c \in Coordinator, Sound(c), NEW pc \in Asking \cup Closing \cup {"later"},
         job'[c].pc = pc, job'[c].at = job[c].at, job[c].at \in Recording,
         \A s \in Recording : s # job[c].at =>
           job'[c].list[s] = job[c].list[s] /\ recording'[s] = recording[s]
  PROVE  ListOK(c)'
BY DEF Sound, Inv, ListOK, At, Asking, Closing

\* Nothing but the place of the step changes.
LEMMA GoSteps ==
  ASSUME NEW c \in Coordinator, Coordinator = {c}, Sound(c),
         \/ NameFails(c) \/ OpenEgress(c) \/ Refused(c) \/ DropFails(c)
         \/ StopIngest(c) \/ FinalizedAlready(c) \/ DiscardFails(c)
  PROVE  Sound(c)'
<1>1. UNCHANGED <<request, over, recording, told, lease, vod>>
  BY DEF NameFails, OpenEgress, Refused, DropFails, StopIngest, FinalizedAlready,
         DiscardFails, media
<1>2. PICK pc \in {"drop", "record", "unname", "finalize", "settle"} :
         /\ job'[c].pc = pc /\ job'[c].at = job[c].at /\ job'[c].list = job[c].list
         /\ job' \in [Coordinator -> Job]
         /\ pc = "drop" => job[c].pc \in {"name", "ingest", "egress"}
         /\ pc = "record" => job[c].pc = "egress"
         /\ pc = "unname" => job[c].pc \in {"create", "drop"}
         /\ pc = "finalize" => job[c].pc = "stop"
         /\ pc = "settle" => \/ job[c].pc = "finalize" /\ vod[rec(c).vod].state = "finalized"
                             \/ job[c].pc = "discard"
  <2>1. CASE Refused(c)
    <3>1. PICK disk \in BOOLEAN, pc \in {"drop", "unname"} :
             /\ job' = [job EXCEPT ![c].pc = pc, ![c].disk = disk]
             /\ pc = "drop" => job[c].pc \in {"ingest", "egress"}
             /\ pc = "unname" => job[c].pc = "create"
      <4>1. CASE At(c, "egress") /\ Go(c, "drop")
        <5>1. job[c].disk \in BOOLEAN /\ job' = [job EXCEPT ![c].pc = "drop", ![c].disk = job[c].disk]
          BY <4>1 DEF Go, Sound, TypeOK, Job
        <5>2. QED BY <4>1, <5>1 DEF At
      <4>2. QED BY <2>1, <4>1 DEF Refused, At
    <3>2. [job[c] EXCEPT !.pc = pc] \in Job
      BY JobFields DEF Sound, TypeOK, Pc
    <3>3. [[job[c] EXCEPT !.pc = pc] EXCEPT !.disk = disk] \in Job
      BY <3>2, JobFields
    <3>4. job' = [job EXCEPT ![c] = [[job[c] EXCEPT !.pc = pc] EXCEPT !.disk = disk]]
      BY <3>1 DEF Sound, TypeOK
    <3>5. QED BY <3>1, <3>3, <3>4 DEF Sound, TypeOK, Job
  <2>2. CASE ~Refused(c)
    BY <2>2, GoFields, GoType
       DEF NameFails, OpenEgress, DropFails, StopIngest, FinalizedAlready, DiscardFails,
           At, Sound, TypeOK
  <2>3. QED BY <2>1, <2>2
<1>3. faults' \in 0..MaxFaults
  BY DEF NameFails, OpenEgress, Refused, DropFails, StopIngest, FinalizedAlready,
         DiscardFails, Fault, Sound, TypeOK
<1>4. TypeOK'
  BY <1>1, <1>2, <1>3 DEF Sound, TypeOK
<1>5. job[c].at \in Recording
  BY <1>2 DEF Sound, TypeOK, Inv, HandOK, Job
<1>6. ListOK(c)'
  BY <1>1, <1>2, <1>5, ListKept DEF Asking, Closing
<1>7. HandOK(c)'
  BY <1>1, <1>2, <1>5 DEF Sound, Inv, HandOK, rec, Asking, Closing, Real
<1>8. QED BY <1>1, <1>4, <1>6, <1>7, RowsKept DEF Sound, Inv

\* A call changes the VOD in hand.
LEMMA VodSteps ==
  ASSUME NEW c \in Coordinator, Coordinator = {c}, Sound(c),
         StartIngest(c) \/ IngestLost(c) \/ DropVod(c) \/ Finalize(c) \/ DiscardClips(c)
  PROVE  Sound(c)'
<1> DEFINE r == job[c].at
           v == rec(c).vod
<1>1. PICK pc \in {"egress", "record", "drop", "unname", "discard", "settle"},
           state \in {"ingesting", "finalized", "deleted"} :
        /\ Go(c, pc) /\ Become(v, state)
        /\ \/ pc \in {"egress", "record", "drop"} /\ state = "ingesting" /\ job[c].pc = "ingest"
           \/ pc = "unname" /\ state = "deleted" /\ job[c].pc = "drop"
           \/ pc \in {"discard", "settle"} /\ state = "finalized" /\ job[c].pc = "finalize"
           \/ pc = "settle" /\ state = "deleted" /\ job[c].pc = "discard"
        /\ pc = "discard" => request[r].mode = "clips"
  BY DEF StartIngest, IngestLost, DropVod, Finalize, DiscardClips, At
<1>2. /\ UNCHANGED <<request, over, recording, told, lease>> /\ faults' \in 0..MaxFaults
  BY DEF StartIngest, IngestLost, DropVod, Finalize, DiscardClips, media, Fault, Sound, TypeOK
<1>3. r \in Recording /\ v \in Vod /\ vod[v].of = r
  BY <1>1 DEF Sound, TypeOK, Inv, HandOK, Job, Closing
<1>4. TypeOK'
  BY <1>1, <1>2, GoType, BecomeType DEF Sound, TypeOK
<1>5. /\ job'[c].pc = pc /\ job'[c].at = r /\ job'[c].list = job[c].list
      /\ vod'[v].state = state /\ vod'[v].of = r
  BY <1>1, <1>3, GoFields DEF Become, Sound, TypeOK, VodRow
<1>6. ListOK(c)'
  BY <1>1, <1>2, <1>3, <1>5, ListKept DEF Asking, Closing
<1>7. HandOK(c)'
  BY <1>1, <1>2, <1>3, <1>5 DEF Sound, Inv, HandOK, rec, Asking, Closing, Real
<1>8. RowOK(r)'
  <2>1. RowOK(r)
    BY <1>3 DEF Sound, Inv
  <2>2. recording[r].vod \in Vod => recording[r].vod = v
    BY <1>1, <1>3 DEF Sound, Inv, HandOK, Closing, Vod, NoVod
  <2>3. recording[r].state \in {"pending", "requested"} \/ recording[r].state = "finalizing"
    BY <1>1, <1>3 DEF Sound, Inv, HandOK, Asking, Closing
  <2>4. state = "deleted" /\ recording[r].state = "finalizing" => request[r].mode = "clips"
    BY <1>1, <1>3 DEF Sound, Inv, HandOK, Asking, Closing
  <2>5. QED BY <1>1, <1>2, <1>5, <2>1, <2>2, <2>3, <2>4 DEF RowOK, Real
<1>9. PICK q \in Recording, u \in Vod : q = r /\ u = v
  BY <1>3
<1>10. RowOK(q)' /\ vod[u].of = q /\ Become(u, state)
  BY <1>1, <1>3, <1>5, <1>8, <1>9
<1>11. \A s \in Recording : RowOK(s)'
  BY <1>2, <1>10, RowsKeptButVod
<1>12. QED BY <1>4, <1>6, <1>7, <1>11 DEF Sound, Inv

LEMMA CreateSteps ==
  ASSUME NEW c \in Coordinator, Coordinator = {c}, Sound(c), NEW v \in Vod,
         CreateVod(c, v) \/ CreateLost(c, v)
  PROVE  Sound(c)'
<1>1. PICK r \in Recording : r = job[c].at
  BY DEF CreateVod, CreateLost, At, Sound, TypeOK, Inv, HandOK, Job
<1>2. /\ job[c].pc = "create" /\ vod[v].state = "none"
      /\ vod' = [vod EXCEPT ![v] = [state |-> "shell", of |-> r]]
      /\ UNCHANGED <<request, over, recording, told, lease>> /\ faults' \in 0..MaxFaults
  BY <1>1 DEF CreateVod, CreateLost, At, Fresh, Make, media, Fault, Sound, TypeOK
<1>3. \A s \in Recording : RowOK(s)'
  <2>1. ASSUME NEW s \in Recording
        PROVE  RowOK(s)'
    <3>1. RowOK(s)
      BY DEF Sound, Inv
    <3>2. recording[s].vod # v \/ recording[s].vod \notin Vod
      BY <1>2, <3>1 DEF RowOK
    <3>3. recording[s].vod \in Vod => vod'[recording[s].vod] = vod[recording[s].vod]
      BY <1>2, <3>2 DEF Sound, TypeOK
    <3>4. QED BY <1>2, <3>1, <3>3 DEF RowOK, Real
  <2>2. QED BY <2>1
<1>4. recording[r].state \in {"pending", "requested"} /\ recording[r].vod = NoVod
      /\ rec(c).vod = NoVod /\ rec(c).attempts < DISK_MAX_ATTEMPTS
  BY <1>1, <1>2 DEF Sound, Inv, HandOK, Asking
<1>5. PICK pc \in {"name", "unname"}, u \in {v, NoVod} :
         /\ job' = [job EXCEPT ![c] = [@ EXCEPT !.pc = pc, !.list[r].vod = u]]
         /\ pc = "name" => u = v
         /\ pc = "unname" => u = NoVod
  <2>1. CASE CreateVod(c, v)
    BY <1>1, <2>1 DEF CreateVod
  <2>2. CASE CreateLost(c, v)
    <3>1. job[c].list[r] = [job[c].list[r] EXCEPT !.vod = NoVod]
      BY <1>1, <1>4 DEF rec, Sound, TypeOK, Job, Row
    <3>2. [job[c] EXCEPT !.pc = "unname"] = [job[c] EXCEPT !.pc = "unname", !.list[r].vod = NoVod]
      <4>1. job[c].list \in [Recording -> Row]
        BY DEF Sound, TypeOK, Job
      <4>2. [job[c].list EXCEPT ![r].vod = NoVod] = job[c].list
        BY <3>1, <4>1
      <4>3. QED BY <4>2 DEF Sound, TypeOK, Job
    <3>3. QED BY <2>2, <3>2 DEF CreateLost, Go, Sound, TypeOK
  <2>3. QED BY <2>1, <2>2
<1>6. [job[c].list[r] EXCEPT !.vod = u] \in Row
  BY DEF Sound, TypeOK, Job, Row
<1>7. /\ job' \in [Coordinator -> Job] /\ job'[c].pc = pc /\ job'[c].at = r
      /\ job'[c].list = [job[c].list EXCEPT ![r] = [@ EXCEPT !.vod = u]]
  <2>1. [job[c] EXCEPT !.pc = pc] \in Job
    BY JobFields DEF Sound, TypeOK, Pc
  <2>2. [[job[c] EXCEPT !.pc = pc] EXCEPT !.list[r] = [job[c].list[r] EXCEPT !.vod = u]] \in Job
    BY <1>6, <2>1, JobFields
  <2>3. job' = [job EXCEPT ![c] =
           [[job[c] EXCEPT !.pc = pc] EXCEPT !.list[r] = [job[c].list[r] EXCEPT !.vod = u]]]
    BY <1>5 DEF Sound, TypeOK, Job
  <2>4. QED BY <1>1, <2>2, <2>3 DEF Sound, TypeOK, Job
<1>8. TypeOK'
  <2>1. vod' \in [Vod -> VodRow]
    BY <1>2 DEF Sound, TypeOK, VodRow
  <2>2. QED BY <1>2, <1>7, <2>1 DEF Sound, TypeOK
<1>9. ListOK(c)'
  BY <1>1, <1>2, <1>7, ListKept DEF Asking, Sound, TypeOK, Job
<1>10. /\ job'[c].list[r].vod = u /\ job'[c].list[r].attempts = rec(c).attempts
  BY <1>1, <1>7 DEF rec, Sound, TypeOK, Job, Row
<1>11. HandOK(c)'
  <2>1. u \in Vod => vod'[u].of = r /\ vod'[u].state # "none"
    BY <1>2, <1>5 DEF Vod, NoVod, Sound, TypeOK
  <2>2. QED BY <1>2, <1>4, <1>5, <1>7, <1>10, <2>1 DEF HandOK, rec, Asking, Closing
<1>12. QED BY <1>3, <1>8, <1>9, <1>11 DEF Sound, Inv

\* The row takes the VOD's name, or loses it.
LEMMA NameSteps ==
  ASSUME NEW c \in Coordinator, Coordinator = {c}, Sound(c), NameVod(c) \/ Unname(c)
  PROVE  Sound(c)'
<1>1. PICK r \in Recording : r = job[c].at
  BY DEF NameVod, Unname, At, Sound, TypeOK, Inv, HandOK, Job
<1>2. UNCHANGED <<request, over, told, vod, lease, faults>>
  BY DEF NameVod, Unname
<1>3. /\ job[c].list[r] \in Row /\ recording[r] \in Row /\ RowOK(r) /\ rec(c) = job[c].list[r]
      /\ recording[r].state \in {"pending", "requested"}
      /\ job[c].list[r].attempts < DISK_MAX_ATTEMPTS
      /\ At(c, "name") => job[c].list[r].vod \in Vod
      /\ job[c].list[r].vod \in Vod => /\ vod[job[c].list[r].vod].of = r
                                       /\ vod[job[c].list[r].vod].state # "none"
  BY <1>1 DEF Sound, TypeOK, Inv, HandOK, Job, NameVod, Unname, At, Asking, rec
<1>4. PICK pc \in {"ingest", "later"}, row \in Row, seen \in Row :
        /\ update(r, row)
        /\ job' = [job EXCEPT ![c] = [@ EXCEPT !.pc = pc, !.list[r] = seen]]
        /\ row.vod = seen.vod
        /\ row.attempts = recording[r].attempts
        /\ seen.attempts < DISK_MAX_ATTEMPTS
        /\ pc = "ingest" => row.vod \in Vod /\ row.vod = rec(c).vod /\ row.state = "requested"
        /\ pc = "later" => row.vod = NoVod /\ row.state = "pending"
  <2>1. CASE NameVod(c)
    <3> DEFINE row == [recording[r] EXCEPT !.vod = rec(c).vod, !.state = "requested"]
    <3>1. row \in Row
      BY <1>3, <2>1 DEF NameVod, Row
    <3>2. recording[r].attempts < DISK_MAX_ATTEMPTS
      BY <1>3 DEF RowOK
    <3>3. /\ update(r, row)
          /\ job' = [job EXCEPT ![c] = [@ EXCEPT !.pc = "ingest", !.list[r] = row]]
      BY <1>1, <2>1 DEF NameVod
    <3>4. row.vod = rec(c).vod /\ row.state = "requested" /\ row.attempts = recording[r].attempts
      BY <1>3 DEF Row
    <3>5. rec(c).vod \in Vod
      BY <1>3, <2>1 DEF NameVod
    <3>6. QED BY <3>1, <3>2, <3>3, <3>4, <3>5
  <2>2. CASE Unname(c)
    <3> DEFINE row == [recording[r] EXCEPT !.vod = NoVod, !.state = "pending"]
               seen == [job[c].list[r] EXCEPT !.vod = NoVod]
    <3>1. row \in Row /\ row.vod = NoVod /\ row.state = "pending"
          /\ row.attempts = recording[r].attempts
      BY <1>3 DEF Row
    <3>2. seen \in Row /\ seen.vod = NoVod /\ seen.attempts = job[c].list[r].attempts
      BY <1>3 DEF Row
    <3>3. /\ update(r, row)
          /\ job' = [job EXCEPT ![c] = [@ EXCEPT !.pc = "later", !.list[r] = seen]]
      BY <1>1, <2>2 DEF Unname, Sound, TypeOK, Job
    <3>4. QED BY <1>3, <3>1, <3>2, <3>3
  <2>3. QED BY <2>1, <2>2
<1>5. /\ job' \in [Coordinator -> Job] /\ job'[c].pc = pc /\ job'[c].at = r
      /\ job'[c].list = [job[c].list EXCEPT ![r] = seen]
  <2>1. [job[c] EXCEPT !.pc = pc] \in Job
    BY JobFields DEF Sound, TypeOK, Pc
  <2>2. [[job[c] EXCEPT !.pc = pc] EXCEPT !.list[r] = seen] \in Job
    BY <2>1, JobFields
  <2>3. QED BY <1>1, <1>4, <2>2 DEF Sound, TypeOK, Job
<1>6. recording' \in [Recording -> Row] /\ recording'[r] = row
  BY <1>4, UpdateType DEF update, Sound, TypeOK
<1>7. TypeOK'
  BY <1>2, <1>5, <1>6 DEF Sound, TypeOK
<1>8. RowOK(r)'
  BY <1>2, <1>3, <1>4, <1>6 DEF RowOK, Vod, NoVod
<1>9. \A s \in Recording : RowOK(s)'
  BY <1>2, <1>4, <1>8, RowsKeptBut
<1>10. ListOK(c)'
  <2>1. \A s \in Recording : s # r =>
          job'[c].list[s] = job[c].list[s] /\ recording'[s] = recording[s]
    BY <1>4, <1>5 DEF update, Sound, TypeOK, Job
  <2>2. QED BY <1>1, <1>5, <2>1, ListKept DEF Asking
<1>11. job'[c].list[r] = seen
  BY <1>5 DEF Sound, TypeOK, Job
<1>12. HandOK(c)'
  BY <1>2, <1>3, <1>4, <1>5, <1>6, <1>11 DEF HandOK, rec, Asking, Closing, Vod, NoVod
<1>13. QED BY <1>7, <1>9, <1>10, <1>12 DEF Sound, Inv

\* A step's last update.
LEMMA EndSteps ==
  ASSUME NEW c \in Coordinator, Coordinator = {c}, Sound(c),
         \/ Record(c) \/ RetryLater(c) \/ FinalizeLost(c) \/ FinalizeRefused(c) \/ Settle(c)
  PROVE  Sound(c)'
<1>1. PICK r \in Recording : r = job[c].at
  BY DEF Record, RetryLater, FinalizeLost, FinalizeRefused, Settle, At, Sound, TypeOK, Inv,
         HandOK, Job
<1>2. recording[r] \in Row /\ rec(c) \in Row /\ job[c].disk \in BOOLEAN /\ RowOK(r)
      /\ rec(c).attempts < DISK_MAX_ATTEMPTS
  BY <1>1 DEF Sound, TypeOK, Inv, HandOK, Job, rec
<1>3. UNCHANGED <<request, over, lease>> /\ Stepped(c, r) /\ faults' \in 0..MaxFaults
  <2>1. UNCHANGED <<request, over, lease>> /\ Stepped(c, r)
    BY <1>1 DEF Record, RetryLater, FinalizeLost, FinalizeRefused, Settle
  <2>2. faults' \in 0..MaxFaults
    <3>1. faults' = faults \/ Fault
      BY DEF Record, RetryLater, FinalizeLost, FinalizeRefused, Settle
    <3>2. QED BY <3>1 DEF Fault, Sound, TypeOK
  <2>3. QED BY <2>1, <2>2
<1>4. CASE Record(c)
  <2> DEFINE row == [recording[r] EXCEPT !.state = "recording", !.attempts = 0, !.due = TRUE]
  <2>1. /\ row \in Row /\ row.vod = recording[r].vod /\ row.state = "recording"
        /\ row.attempts = 0
    <3>1. 0 \in Attempts
      BY DEF Attempts
    <3>2. QED BY <1>2, <3>1 DEF Row
  <2>2. update(r, row) /\ told' = [told EXCEPT ![r] = @ + 1] /\ vod' = vod
    BY <1>1, <1>4 DEF Record
  <2>3. told' \in [Recording -> Nat] /\ recording'[r] = row
    BY <2>2 DEF update, Sound, TypeOK
  <2>4. /\ recording[r].state \in {"pending", "requested"} /\ recording[r].vod \in Vod
        /\ vod[recording[r].vod].state \in {"ingesting", "finalized"}
    BY <1>1, <1>4 DEF Record, At, Sound, Inv, HandOK, Asking
  <2>5. told'[r] = 1 /\ \A s \in Recording : s # r => told'[s] = told[s]
    BY <1>2, <2>2, <2>4 DEF RowOK, Sound, TypeOK
  <2>6. RowOK(r)'
    BY <1>2, <1>3, <2>1, <2>2, <2>3, <2>4, <2>5 DEF RowOK
  <2>7. \A s \in Recording : RowOK(s)'
    BY <1>3, <2>2, <2>5, <2>6, RowsKeptBut
  <2>8. QED BY <1>1, <1>3, <2>1, <2>2, <2>3, <2>7, StepEnds DEF Sound, TypeOK, Inv
<1>5. CASE RetryLater(c) \/ FinalizeRefused(c) \/ Settle(c)
  <2>1. told' = told /\ vod' = vod
    BY <1>5 DEF RetryLater, FinalizeRefused, Settle
  <2>2. PICK row \in Row :
          /\ update(r, row) /\ row.vod = recording[r].vod
          /\ row.state \in {recording[r].state, "failed", "finalized"}
          /\ row.state # "failed" => row.attempts < DISK_MAX_ATTEMPTS
          /\ row.state = "finalized" => /\ recording[r].vod \in Vod
                                        /\ Real(recording[r].vod, r)
    <3>1. CASE RetryLater(c)
      <4>1. update(r, retryLater(recording[r], recording[r], job[c].disk))
            /\ recording[r].state = "pending"
        BY <1>1, <3>1 DEF RetryLater, At, Sound, Inv, HandOK
      <4>2. recording[r].attempts < DISK_MAX_ATTEMPTS
        BY <1>2, <4>1 DEF RowOK
      <4>3. QED BY <1>2, <4>1, <4>2, RetryType
    <3>2. CASE FinalizeRefused(c)
      <4>1. update(r, retryLater(recording[r], rec(c), FALSE))
            /\ recording[r].state = "finalizing"
        BY <1>1, <3>2 DEF FinalizeRefused, At, Sound, Inv, HandOK, Closing
      <4>2. QED BY <1>2, <4>1, RetryType
    <3>3. CASE Settle(c)
      <4>1. [recording[r] EXCEPT !.state = "finalized"] \in Row
        BY <1>2 DEF Row, Settled
      <4>2. /\ recording[r].vod \in Vod /\ Real(recording[r].vod, r)
            /\ recording[r].state = "finalizing"
        BY <1>1, <3>3 DEF Settle, At, Sound, Inv, HandOK, Closing
      <4>3. QED BY <1>1, <1>2, <3>3, <4>1, <4>2 DEF Settle, Row, RowOK
    <3>4. QED BY <1>5, <3>1, <3>2, <3>3
  <2>3. recording'[r] = row
    BY <2>2 DEF update, Sound, TypeOK
  <2>4. RowOK(r)'
    BY <1>2, <1>3, <2>1, <2>2, <2>3 DEF RowOK, Real
  <2>5. \A s \in Recording : RowOK(s)'
    BY <1>3, <2>1, <2>2, <2>4, RowsKeptBut
  <2>6. QED BY <1>1, <1>3, <2>1, <2>2, <2>5, StepEnds DEF Sound, TypeOK, Inv
<1>6. CASE FinalizeLost(c)
  <2>1. /\ update(r, retryLater(recording[r], rec(c), FALSE)) /\ told' = told
        /\ recording[r].state = "finalizing" /\ recording[r].vod \in Vod
        /\ Become(recording[r].vod, "finalized") /\ vod[recording[r].vod].of = r
    BY <1>1, <1>6 DEF FinalizeLost, At, Sound, Inv, HandOK, Closing
  <2>2. PICK row \in Row :
           /\ update(r, row) /\ row.vod = recording[r].vod
           /\ row.state \in {"finalizing", "failed"}
           /\ row.state # "failed" => row.attempts < DISK_MAX_ATTEMPTS
    BY <1>2, <2>1, RetryType
  <2>3. recording'[r] = row
    BY <2>2 DEF update, Sound, TypeOK
  <2>4. PICK v \in Vod : v = recording[r].vod
    BY <2>1
  <2>5. vod' \in [Vod -> VodRow] /\ vod'[v].state = "finalized" /\ vod'[v].of = r
    BY <2>1, <2>4, BecomeType DEF Become, Sound, TypeOK, VodRow
  <2>6. RowOK(r)'
    BY <1>2, <1>3, <2>1, <2>2, <2>3, <2>4, <2>5 DEF RowOK, Real
  <2>7. ASSUME NEW s \in Recording, s # r
        PROVE  RowOK(s)'
    <3>1. RowOK(s) /\ recording'[s] = recording[s] /\ told'[s] = told[s]
      BY <2>1, <2>7 DEF Sound, TypeOK, Inv, update
    <3>2. recording[s].vod \in Vod => recording[s].vod # v
      BY <2>1, <2>4, <2>7, <3>1 DEF RowOK
    <3>3. recording[s].vod \in Vod => vod'[recording[s].vod] = vod[recording[s].vod]
      BY <2>1, <2>4, <3>2 DEF Become, Sound, TypeOK
    <3>4. QED BY <1>3, <3>1, <3>3 DEF RowOK, Real
  <2>8. QED BY <1>1, <1>3, <2>1, <2>2, <2>5, <2>6, <2>7, StepEnds DEF Sound, TypeOK, Inv
<1>7. QED BY <1>4, <1>5, <1>6

-----------------------------------------------------------------------------
(* The world around, and the theorems                                      *)

LEMMA WorldSteps ==
  ASSUME NEW c \in Coordinator, Coordinator = {c}, Sound(c),
         \/ LeaseLapses \/ \E r \in Recording : Wait(r) \/ SessionEnds(r)
         \/ \E v \in Vod : SourceEnds(v)
         \/ UNCHANGED vars
  PROVE  Sound(c)'
<1>1. CASE LeaseLapses \/ UNCHANGED vars \/ \E r \in Recording : SessionEnds(r)
  <2>1. UNCHANGED <<request, recording, told, vod, job>>
    BY <1>1 DEF LeaseLapses, vars, SessionEnds
  <2>2. TypeOK'
    BY <1>1 DEF Sound, TypeOK, LeaseLapses, vars, SessionEnds
  <2>3. ListOK(c)'
    BY <2>1 DEF Sound, Inv, ListOK, At
  <2>4. HandOK(c)'
    BY <2>1 DEF Sound, Inv, HandOK, rec, Real
  <2>5. QED BY <2>1, <2>2, <2>3, <2>4, RowsKept DEF Sound, Inv
<1>2. ASSUME NEW r \in Recording, Wait(r)
      PROVE  Sound(c)'
  <2> DEFINE row == [recording[r] EXCEPT !.due = TRUE]
  <2>1. update(r, row) /\ UNCHANGED <<request, over, told, vod, job, lease, faults>>
    BY <1>2 DEF Wait, update
  <2>2. row \in Row /\ row.vod = recording[r].vod /\ row.state = recording[r].state
        /\ row.attempts = recording[r].attempts
    <3>1. recording[r] \in Row
      BY DEF Sound, TypeOK
    <3>2. QED BY <3>1 DEF Row
  <2>3. recording'[r] = row
    BY <2>1 DEF update, Sound, TypeOK
  <2>4. TypeOK'
    BY <2>1, <2>2, UpdateType DEF Sound, TypeOK
  <2>5. RowOK(r)'
    <3>1. RowOK(r)
      BY DEF Sound, Inv
    <3>2. QED BY <3>1, <2>1, <2>2, <2>3 DEF RowOK, Real
  <2>6. \A s \in Recording : s # r => recording'[s] = recording[s]
    BY <2>1 DEF update, Sound, TypeOK
  <2>7. ListOK(c)'
    BY <1>2, <2>1, <2>6 DEF Wait, Sound, Inv, ListOK, At
  <2>8. HandOK(c)'
    <3>1. \A s \in Recording : recording'[s].state = recording[s].state
                               /\ recording'[s].vod = recording[s].vod
      BY <2>2, <2>3, <2>6
    <3>2. job[c].at \in Recording \cup {NoRecording}
      BY DEF Sound, TypeOK, Job
    <3>3. QED BY <2>1, <3>1, <3>2 DEF Sound, Inv, HandOK, rec, Real
  <2>9. QED BY <2>1, <2>4, <2>5, <2>7, <2>8, RowsKeptBut DEF Sound, Inv
<1>3. ASSUME NEW v \in Vod, SourceEnds(v)
      PROVE  Sound(c)'
  <2>1. /\ vod[v].state = "ingesting" /\ Become(v, "finalized")
        /\ UNCHANGED <<request, over, recording, told, lease, job, faults>>
    BY <1>3 DEF SourceEnds, media
  <2>2. /\ vod' \in [Vod -> VodRow]
        /\ \A u \in Vod : /\ vod'[u].of = vod[u].of
                          /\ \/ vod'[u].state = vod[u].state
                             \/ vod[u].state = "ingesting" /\ vod'[u].state = "finalized"
    BY <2>1, BecomeType DEF Become, Sound, TypeOK, VodRow
  <2>3. TypeOK'
    BY <2>1, <2>2 DEF Sound, TypeOK
  <2>4. ASSUME NEW r \in Recording
        PROVE  RowOK(r)'
    <3>1. RowOK(r)
      BY DEF Sound, Inv
    <3>2. QED BY <3>1, <2>1, <2>2 DEF RowOK, Real
  <2>5. ListOK(c)'
    BY <2>1 DEF Sound, Inv, ListOK, At
  <2>6. HandOK(c)'
    BY <2>1, <2>2 DEF Sound, Inv, HandOK, rec, Real, Closing
  <2>7. QED BY <2>3, <2>4, <2>5, <2>6 DEF Sound, Inv
<1>4. QED BY <1>1, <1>2, <1>3

\* The steps of the system, when c is its only coordinator.
LEMMA StepsOfOne ==
  ASSUME NEW c \in Coordinator, Coordinator = {c}, [Next]_vars
  PROVE  \/ Work(c) \/ Trouble(c)
         \/ LeaseLapses \/ \E r \in Recording : Wait(r) \/ SessionEnds(r)
         \/ \E v \in Vod : SourceEnds(v)
         \/ UNCHANGED vars
<1>1. ASSUME NEW d \in Coordinator, Work(d) \/ Trouble(d)
      PROVE  Work(c) \/ Trouble(c)
  <2>1. d = c
    OBVIOUS
  <2>2. QED BY <1>1, <2>1, Zenon
<1>2. ASSUME Next, ~\E d \in Coordinator : Work(d) \/ Trouble(d)
      PROVE  \/ LeaseLapses \/ \E r \in Recording : Wait(r) \/ SessionEnds(r)
             \/ \E v \in Vod : SourceEnds(v)
  BY <1>2, Zenon DEF Next
<1>3. CASE Next
  BY <1>1, <1>2, <1>3, Zenon
<1>4. QED BY <1>3

LEMMA SoundStep ==
  ASSUME NEW c \in Coordinator, Coordinator = {c}, Sound(c), [Next]_vars
  PROVE  Sound(c)'
<1>1. CASE Work(c)
  BY <1>1, TickSteps, InsertStep, BranchSteps, AskStep, StartFinalizingStep, GoSteps,
     VodSteps, CreateSteps, NameSteps, EndSteps
     DEF Work, Branch, AskMedia, CloseMedia
<1>2. CASE Trouble(c)
  BY <1>2, TickSteps, GoSteps, VodSteps, CreateSteps, EndSteps DEF Trouble
<1>3. CASE \/ LeaseLapses \/ \E r \in Recording : Wait(r) \/ SessionEnds(r)
           \/ \E v \in Vod : SourceEnds(v)
           \/ UNCHANGED vars
  BY <1>3, WorldSteps
<1>4. QED BY <1>1, <1>2, <1>3, StepsOfOne

LEMMA SoundInit ==
  ASSUME NEW c \in Coordinator, Init
  PROVE  Sound(c)
<1>1. TypeOK
  BY RowTypes DEF Init, TypeOK, VodRow
<1>2. job[c] = Idle
  BY DEF Init
<1>3. ListOK(c) /\ HandOK(c)
  BY <1>2 DEF ListOK, HandOK, Idle, At, NoRow
<1>4. \A r \in Recording : RowOK(r)
  <2>1. 0 < DISK_MAX_ATTEMPTS
    OBVIOUS
  <2>2. QED BY <2>1 DEF Init, RowOK, NoRow, Vod, NoVod
<1>5. QED BY <1>1, <1>3, <1>4 DEF Sound, Inv

LEMMA SoundAlways ==
  ASSUME NEW c \in Coordinator, Coordinator = {c}
  PROVE  Spec => []Sound(c)
<1>1. Init => Sound(c)
  BY SoundInit
<1>2. Sound(c) /\ [Next]_vars => Sound(c)'
  BY SoundStep
<1>3. QED BY <1>1, <1>2, PTL DEF Spec

\* With one coordinator, however it crashes, rows, jobs and VODs stay well formed;
\* attempts never exceed the limit.
THEOREM RecordingTypeCorrect ==
  ASSUME NEW c \in Coordinator, Coordinator = {c}
  PROVE  Spec => []TypeOK
<1>1. Sound(c) => TypeOK
  BY DEF Sound
<1>2. QED BY <1>1, SoundAlways, PTL

\* One coordinator tells openre.recording.requested at most once per session.
THEOREM RequestedOnceHolds ==
  ASSUME NEW c \in Coordinator, Coordinator = {c}
  PROVE  Spec => []RequestedOnce
<1>1. Sound(c) => RequestedOnce
  BY DEF Sound, Inv, RowOK, RequestedOnce
<1>2. QED BY <1>1, SoundAlways, PTL

\* A row that says `recording` names a VOD Media records or recorded, and one that
\* says `finalized` a VOD Media finalized.
THEOREM RecordingIsRealHolds ==
  ASSUME NEW c \in Coordinator, Coordinator = {c}
  PROVE  Spec => []RecordingIsReal
<1>1. Sound(c) => RecordingIsReal
  BY DEF Sound, Inv, RowOK, RecordingIsReal, Real
<1>2. QED BY <1>1, SoundAlways, PTL

-----------------------------------------------------------------------------
(* Leaks                                                                   *)

\* A VOD that is not named by a row, nor in the hands of a step that will name
\* or delete it.  A step that is about to clear its row's name holds nothing.
Clearing(c, r) == job[c].at = r /\ job[c].pc = "unname"
Owned(c, v) ==
  \/ \E r \in Recording : recording[r].vod = v /\ ~Clearing(c, r)
  \/ job[c].at # NoRecording /\ job[c].pc # "unname" /\ rec(c).vod = v
Lost(c) == {v \in Vod : Kept(v) /\ ~Owned(c, v)}

LeakInv(c) == Cardinality(Lost(c)) <= faults

LEMMA LostFinite ==
  ASSUME NEW c
  PROVE  IsFiniteSet(Lost(c)) /\ Cardinality(Lost(c)) \in Nat
<1>1. IsFiniteSet(Vod)
  BY FS_Interval DEF Vod
<1>2. IsFiniteSet(Lost(c))
  BY <1>1, FS_Subset DEF Lost
<1>3. QED BY <1>2, FS_CardinalityType

\* A set of lost VODs that does not grow, or grows by one when a fault happens.
LEMMA LeakBound ==
  ASSUME NEW S, NEW T, NEW n \in Nat, NEW m \in Nat,
         IsFiniteSet(S), Cardinality(S) <= n,
         \/ T \subseteq S /\ m >= n
         \/ m = n + 1 /\ \E v : T \subseteq S \cup {v}
  PROVE  Cardinality(T) <= m
<1>1. Cardinality(S) \in Nat
  BY FS_CardinalityType
<1>2. CASE T \subseteq S /\ m >= n
  <2>1. Cardinality(T) \in Nat /\ Cardinality(T) <= Cardinality(S)
    BY <1>2, FS_Subset, FS_CardinalityType
  <2>2. QED BY <1>1, <1>2, <2>1
<1>3. ASSUME m = n + 1, NEW v, T \subseteq S \cup {v}
      PROVE  Cardinality(T) <= m
  <2>1. /\ IsFiniteSet(S \cup {v})
        /\ Cardinality(S \cup {v}) \in Nat
        /\ Cardinality(S \cup {v}) <= Cardinality(S) + 1
    <3>1. CASE v \in S
      BY <1>1, <3>1, FS_AddElement
    <3>2. CASE v \notin S
      BY <1>1, <3>2, FS_AddElement
    <3>3. QED BY <3>1, <3>2
  <2>2. Cardinality(T) \in Nat /\ Cardinality(T) <= Cardinality(S \cup {v})
    BY <1>3, <2>1, FS_Subset, FS_CardinalityType
  <2>3. QED BY <1>1, <1>3, <2>1, <2>2
<1>4. QED BY <1>2, <1>3

NamesKept == \A r \in Recording : recording'[r].vod = recording[r].vod
KeptOnly == \A v \in Vod : Kept(v)' => Kept(v)

\* What a step owns it has named, unless it is about to name it or drop it.
LEMMA OwnedIsNamed ==
  ASSUME NEW c \in Coordinator, Sound(c), job[c].pc \notin {"name", "drop"},
         NEW v \in Vod, Owned(c, v)
  PROVE  \E r \in Recording : recording[r].vod = v
BY DEF Owned, Sound, TypeOK, Inv, HandOK, Job, Pc, Closing, Vod, NoVod

LEMMA NamedIsOwned ==
  ASSUME NEW c \in Coordinator, job'[c].pc # "unname", NEW v \in Vod,
         NEW r \in Recording, recording'[r].vod = v
  PROVE  Owned(c, v)'
BY DEF Owned, Clearing

LEMMA PlainStep ==
  ASSUME NEW c \in Coordinator, Sound(c), job[c].pc \notin {"name", "drop"},
         job'[c].pc # "unname", NamesKept, KeptOnly
  PROVE  Lost(c)' \subseteq Lost(c)
<1>1. ASSUME NEW v \in Vod, Owned(c, v)
      PROVE  Owned(c, v)'
  <2>1. PICK r \in Recording : recording[r].vod = v
    BY <1>1, OwnedIsNamed
  <2>2. recording'[r].vod = v
    BY <2>1 DEF NamesKept
  <2>3. QED BY <2>2, NamedIsOwned
<1>2. QED BY <1>1 DEF Lost, KeptOnly

LEMMA VodsSame ==
  ASSUME vod' = vod
  PROVE  KeptOnly
BY DEF KeptOnly, Kept

\* No VOD comes into being, and none that Media deleted comes back.
LEMMA BecomeKeeps ==
  ASSUME vod \in [Vod -> VodRow], NEW v, NEW state, Become(v, state),
         vod[v].state \in {"shell", "ingesting", "finalized"}
  PROVE  KeptOnly
BY DEF KeptOnly, Become, Kept, VodRow

LEMMA SteppedTo ==
  ASSUME job \in [Coordinator -> Job], NEW c \in Coordinator, NEW r, Stepped(c, r)
  PROVE  job'[c].pc = "next" /\ job'[c].at = NoRecording
BY DEF Stepped, Job

LEMMA GoneTo ==
  ASSUME job \in [Coordinator -> Job], NEW c \in Coordinator, NEW pc, Go(c, pc)
  PROVE  job'[c].pc = pc /\ job'[c].at = job[c].at /\ job'[c].list = job[c].list
BY DEF Go, Job

\* A step of the coordinator that names, makes and drops nothing.
LEMMA PlainTick ==
  ASSUME NEW c \in Coordinator, Sound(c),
         \/ StartTick(c) \/ ReadDue(c) \/ EndTick(c)
         \/ \E r \in Recording : Insert(c, r)
  PROVE  Lost(c)' \subseteq Lost(c) /\ faults' >= faults
<1>1. /\ job[c].pc \in {"idle", "insert", "next"} /\ job'[c].pc # "unname"
      /\ vod' = vod /\ faults' = faults /\ faults \in Nat
  <2>1. /\ job[c].pc \in {"idle", "insert", "next"}
        /\ vod' = vod /\ faults' = faults /\ faults \in Nat
    BY DEF StartTick, ReadDue, EndTick, Insert, At, Sound, TypeOK
  <2>2. job \in [Coordinator -> Job] /\ job[c] \in Job
    BY DEF Sound, TypeOK
  <2>3. CASE StartTick(c) \/ ReadDue(c)
    <3>1. CASE StartTick(c)
      BY <2>1, <2>2, <3>1 DEF StartTick, Job
    <3>2. CASE ReadDue(c)
      BY <2>1, <2>2, <3>2 DEF ReadDue, Job
    <3>3. QED BY <2>3, <3>1, <3>2
  <2>4. CASE EndTick(c)
    <3>1. job'[c] = Idle
      BY <2>2, <2>4 DEF EndTick
    <3>2. QED BY <2>1, <3>1 DEF Idle
  <2>5. ASSUME NEW r \in Recording, Insert(c, r)
        PROVE  job'[c].pc # "unname"
    <3>1. CASE job' = [job EXCEPT ![c] = Idle]
      BY <2>2, <3>1 DEF Idle
    <3>2. CASE job' = [job EXCEPT ![c].todo = @ \ {r}]
      BY <2>1, <2>2, <3>2 DEF Job
    <3>3. QED BY <2>5, <3>1, <3>2 DEF Insert
  <2>6. QED BY <2>1, <2>3, <2>4, <2>5
<1>2. NamesKept
  <2>1. CASE UNCHANGED recording
    BY <2>1 DEF NamesKept
  <2>2. ASSUME NEW r \in Recording, Insert(c, r), recording[r].state = "none"
        PROVE  NamesKept
    <3>1. recording' = [recording EXCEPT ![r] = [NoRow EXCEPT !.state = "pending"]]
      BY <2>2 DEF Insert, update
    <3>2. recording[r].vod = NoVod
      BY <2>2 DEF Sound, Inv, RowOK
    <3>3. QED BY <3>1, <3>2 DEF NamesKept, NoRow, Sound, TypeOK
  <2>3. QED BY <2>1, <2>2 DEF StartTick, ReadDue, EndTick, Insert
<1>3. QED BY <1>1, <1>2, VodsSame, PlainStep

LEMMA PlainBranch ==
  ASSUME NEW c \in Coordinator, Sound(c), NEW r \in Recording, Branch(c, r)
  PROVE  Lost(c)' \subseteq Lost(c) /\ faults' >= faults
<1>1. PICK states \in SUBSET {"pending", "requested", "recording", "finalizing"} :
        Picked(c, r, states)
  BY DEF Branch, RejectJsmpeg, Cancel, NotReady, Ask, Resume, StartFinalizing
<1>2. /\ job[c].pc = "next" /\ job[c].list[r] = recording[r] /\ recording[r] \in Row
      /\ recording[r].attempts < DISK_MAX_ATTEMPTS
  BY <1>1, PickedRow
<1>3. vod' = vod /\ faults' = faults /\ faults \in Nat
  BY <1>1 DEF Picked, Sound, TypeOK
<1>4. job'[c].pc # "unname"
  <2>1. job \in [Coordinator -> Job] /\ job[c] \in Job
    BY DEF Sound, TypeOK
  <2>2. CASE RejectJsmpeg(c, r) \/ Cancel(c, r) \/ NotReady(c, r) \/ Resume(c, r)
    BY <2>1, <2>2, SteppedTo, GoneTo DEF RejectJsmpeg, Cancel, NotReady, Resume
  <2>3. CASE Ask(c, r)
    BY <2>1, <2>3 DEF Ask, Job
  <2>4. CASE StartFinalizing(c, r)
    BY <2>1, <2>4 DEF StartFinalizing, Job
  <2>5. QED BY <2>2, <2>3, <2>4 DEF Branch
<1>5. \/ UNCHANGED recording
      \/ \E row : update(r, row) /\ row.vod = recording[r].vod
  <2>1. \A state : [recording[r] EXCEPT !.state = state].vod = recording[r].vod
    BY <1>2 DEF Row
  <2>2. retryLater(recording[r], job[c].list[r], FALSE).vod = recording[r].vod
    BY <1>2, RetryType
  <2>3. CASE RejectJsmpeg(c, r) \/ Cancel(c, r) \/ NotReady(c, r) \/ Resume(c, r)
    BY <2>1, <2>2, <2>3 DEF RejectJsmpeg, Cancel, NotReady, Resume
  <2>4. CASE Ask(c, r)
    BY <2>4 DEF Ask
  <2>5. CASE StartFinalizing(c, r)
    BY <2>1, <2>5 DEF StartFinalizing
  <2>6. QED BY <2>3, <2>4, <2>5 DEF Branch
<1>6. NamesKept
  BY <1>5 DEF NamesKept, update, Sound, TypeOK
<1>7. QED BY <1>2, <1>3, <1>4, <1>6, VodsSame, PlainStep

\* Steps within the calls to Media, and their ends, that keep what rows name.
LEMMA PlainWork ==
  ASSUME NEW c \in Coordinator, Sound(c),
         \/ StartIngest(c) \/ IngestLost(c) \/ OpenEgress(c) \/ Record(c) \/ RetryLater(c)
         \/ Refused(c) /\ ~At(c, "create")
         \/ CloseMedia(c) \/ FinalizeLost(c) \/ DiscardFails(c)
  PROVE  Lost(c)' \subseteq Lost(c) /\ faults' >= faults
<1>1. /\ job \in [Coordinator -> Job] /\ job[c] \in Job /\ faults \in Nat
      /\ recording \in [Recording -> Row] /\ vod \in [Vod -> VodRow]
  BY DEF Sound, TypeOK
<1>2. /\ job[c].pc \in {"ingest", "egress", "record", "later"} \cup Closing
      /\ faults' >= faults
  <2>1. CASE \/ StartIngest(c) \/ IngestLost(c) \/ OpenEgress(c) \/ Record(c) \/ RetryLater(c)
             \/ Refused(c) /\ ~At(c, "create")
    BY <1>1, <2>1 DEF StartIngest, IngestLost, OpenEgress, Record, RetryLater, Refused, Fault,
                      At, media
  <2>2. CASE CloseMedia(c) \/ FinalizeLost(c) \/ DiscardFails(c)
    <3>1. CASE CloseMedia(c)
      <4>1. faults' = faults
        BY <3>1 DEF CloseMedia, StopIngest, Finalize, FinalizedAlready, FinalizeRefused,
                    DiscardClips, Settle, media
      <4>2. job[c].pc \in Closing
        BY <3>1 DEF CloseMedia, StopIngest, Finalize, FinalizedAlready, FinalizeRefused,
                    DiscardClips, Settle, At, Closing
      <4>3. QED BY <1>1, <4>1, <4>2
    <3>2. CASE FinalizeLost(c)
      BY <1>1, <3>2 DEF FinalizeLost, Fault, At, Closing
    <3>4. CASE DiscardFails(c)
      BY <1>1, <3>4 DEF DiscardFails, Fault, At, Closing
    <3>3. QED BY <2>2, <3>1, <3>2, <3>4
  <2>3. QED BY <2>1, <2>2
<1>3. PICK r \in Recording : r = job[c].at
  BY <1>1, <1>2 DEF Sound, Inv, HandOK, Job, Closing
<1>4. /\ rec(c) \in Row /\ rec(c).attempts < DISK_MAX_ATTEMPTS /\ RowOK(r)
      /\ job[c].disk \in BOOLEAN
  BY <1>1, <1>3 DEF Sound, Inv, HandOK, rec, Job
<1>5. job'[c].pc # "unname"
  <2>1. CASE Record(c) \/ RetryLater(c) \/ FinalizeRefused(c) \/ Settle(c) \/ FinalizeLost(c)
    BY <1>1, <2>1, SteppedTo, GoneTo DEF Record, RetryLater, FinalizeRefused, Settle, FinalizeLost
  <2>2. CASE \/ StartIngest(c) \/ IngestLost(c) \/ OpenEgress(c) \/ StopIngest(c)
             \/ Finalize(c) \/ FinalizedAlready(c) \/ DiscardClips(c) \/ DiscardFails(c)
    BY <1>1, <2>2, SteppedTo, GoneTo DEF StartIngest, IngestLost, OpenEgress, StopIngest, Finalize,
                                 FinalizedAlready, DiscardClips, DiscardFails
  <2>3. CASE Refused(c) /\ ~At(c, "create")
    <3>1. CASE At(c, "egress") /\ Go(c, "drop")
      BY <1>1, <3>1, SteppedTo, GoneTo
    <3>2. ASSUME NEW disk \in BOOLEAN, job' = [job EXCEPT ![c].pc = "drop", ![c].disk = disk]
          PROVE  job'[c].pc = "drop"
      BY <1>1, <3>2 DEF Job
    <3>3. QED BY <2>3, <3>1, <3>2 DEF Refused
  <2>4. QED BY <2>1, <2>2, <2>3 DEF CloseMedia
<1>6. NamesKept
  <2>1. \/ UNCHANGED recording
        \/ \E row : update(r, row) /\ row.vod = recording[r].vod
    <3>1. CASE Record(c) \/ Settle(c)
      <4>1. /\ [recording[r] EXCEPT !.state = "recording", !.attempts = 0,
                                    !.due = TRUE].vod = recording[r].vod
            /\ [recording[r] EXCEPT !.state = "finalized"].vod = recording[r].vod
        BY <1>1 DEF Row
      <4>2. QED BY <1>3, <3>1, <4>1 DEF Record, Settle
    <3>2. CASE RetryLater(c)
      <4>1. recording[r].attempts < DISK_MAX_ATTEMPTS
        BY <1>3, <1>4, <3>2 DEF RetryLater, At, Sound, Inv, HandOK, RowOK
      <4>2. QED BY <1>1, <1>3, <1>4, <3>2, <4>1, RetryType DEF RetryLater
    <3>3. CASE FinalizeRefused(c) \/ FinalizeLost(c)
      <4>1. retryLater(recording[r], rec(c), FALSE).vod = recording[r].vod
        BY <1>1, <1>4, RetryType
      <4>2. QED BY <1>3, <3>3, <4>1 DEF FinalizeRefused, FinalizeLost
    <3>4. CASE UNCHANGED recording
      BY <3>4
    <3>5. QED BY <3>1, <3>2, <3>3, <3>4
              DEF StartIngest, IngestLost, OpenEgress, Refused, CloseMedia, StopIngest,
                  Finalize, FinalizedAlready, DiscardClips, DiscardFails, media
  <2>2. QED BY <1>1, <2>1 DEF NamesKept, update
<1>7. KeptOnly
  <2>1. CASE StartIngest(c) \/ IngestLost(c)
    BY <1>1, <2>1, BecomeKeeps DEF StartIngest, IngestLost, Ingestible
  <2>2. CASE Finalize(c) \/ FinalizeLost(c)
    BY <1>1, <2>2, BecomeKeeps DEF Finalize, FinalizeLost
  <2>3. CASE DiscardClips(c)
    BY <1>1, <2>3 DEF DiscardClips, Become, KeptOnly, Kept, VodRow
  <2>4. CASE UNCHANGED vod
    BY <2>4, VodsSame
  <2>5. QED BY <2>1, <2>2, <2>3, <2>4
            DEF OpenEgress, Record, RetryLater, Refused, CloseMedia, StopIngest,
                FinalizedAlready, FinalizeRefused, Settle, DiscardFails
<1>8. QED BY <1>2, <1>5, <1>6, <1>7, PlainStep DEF Closing

\* A step that goes on to clear the row's name: whatever another row names stays
\* owned, and so does all but the VOD in hand.
LEMMA Unnaming ==
  ASSUME NEW c \in Coordinator, Sound(c), UNCHANGED recording,
         job[c].at # NoRecording, job'[c].at = job[c].at, job'[c].pc = "unname",
         NEW v \in Vod, Owned(c, v), v # rec(c).vod,
         recording[job[c].at].vod \in {NoVod, rec(c).vod}
  PROVE  Owned(c, v)'
BY DEF Owned, Clearing, Vod, NoVod

LEMMA Naming ==
  ASSUME NEW c \in Coordinator, Sound(c), LeakInv(c),
         NameVod(c) \/ NameFails(c) \/ DropVod(c) \/ DropFails(c) \/ Unname(c)
  PROVE  /\ faults' >= faults
         /\ \/ Lost(c)' \subseteq Lost(c)
            \/ faults' = faults + 1 /\ \E v : Lost(c)' \subseteq Lost(c) \cup {v}
<1>1. /\ job \in [Coordinator -> Job] /\ job[c] \in Job /\ faults \in Nat
      /\ recording \in [Recording -> Row] /\ vod \in [Vod -> VodRow]
  BY DEF Sound, TypeOK
<1>2. PICK r \in Recording : r = job[c].at
  BY DEF NameVod, NameFails, DropVod, DropFails, Unname, At, Sound, TypeOK, Inv, HandOK, Job
<1>3. job[c].at # NoRecording
  BY <1>2
<1>4. CASE NameVod(c)
  <2> DEFINE row == [recording[r] EXCEPT !.vod = rec(c).vod, !.state = "requested"]
  <2>1. /\ recording' = [recording EXCEPT ![r] = row] /\ vod' = vod /\ faults' = faults
        /\ row.vod = rec(c).vod /\ recording[r].vod = NoVod
    BY <1>1, <1>2, <1>4 DEF NameVod, update, Row, At, Sound, Inv, HandOK
  <2>2. job'[c].pc = "ingest"
    BY <1>1, <1>4 DEF NameVod, Job
  <2>3. ASSUME NEW v \in Vod, Owned(c, v)
        PROVE  Owned(c, v)'
    <3>1. CASE v = rec(c).vod
      BY <1>1, <2>1, <2>2, <3>1, NamedIsOwned
    <3>2. CASE v # rec(c).vod
      BY <1>1, <2>1, <2>2, <2>3, <3>2, NamedIsOwned DEF Owned, Vod, NoVod
    <3>3. QED BY <3>1, <3>2
  <2>4. QED BY <1>1, <2>1, <2>3 DEF Lost, Kept
<1>5. CASE NameFails(c)
  <2>1. job[c].pc = "name" /\ Go(c, "drop") /\ recording' = recording /\ vod' = vod
        /\ faults' = faults + 1
    BY <1>5 DEF NameFails, At, media, Fault
  <2>2. job'[c].pc = "drop" /\ job'[c].at = job[c].at /\ job'[c].list = job[c].list
    BY <1>1, <2>1, GoneTo
  <2>3. ASSUME NEW v \in Vod, Owned(c, v)
        PROVE  Owned(c, v)'
    BY <2>1, <2>2, <2>3 DEF Owned, Clearing, rec
  <2>4. QED BY <1>1, <2>1, <2>3 DEF Lost, Kept
<1>6. CASE DropVod(c) \/ DropFails(c)
  <2>1. /\ job[c].pc = "drop" /\ Go(c, "unname") /\ recording' = recording
        /\ recording[job[c].at].vod \in {NoVod, rec(c).vod}
        /\ \/ faults' = faults /\ Become(rec(c).vod, "deleted")
           \/ faults' = faults + 1 /\ vod' = vod
    BY <1>3, <1>6 DEF DropVod, DropFails, Fault, At, media, Sound, Inv, HandOK
  <2>2. job'[c].pc = "unname" /\ job'[c].at = job[c].at
    BY <1>1, <2>1, GoneTo
  <2>3. \A v \in Vod : v # rec(c).vod /\ Owned(c, v) => Owned(c, v)'
    BY <1>3, <2>1, <2>2, Unnaming
  <2>4. Lost(c)' \subseteq Lost(c) \cup {rec(c).vod}
    <3>1. \A v \in Vod : Kept(v)' => Kept(v) \/ v = rec(c).vod
      BY <1>1, <2>1 DEF Become, Kept
    <3>2. QED BY <2>3, <3>1 DEF Lost
  <2>5. CASE Become(rec(c).vod, "deleted")
    <3>1. \A v \in Vod : v = rec(c).vod => ~Kept(v)'
      BY <1>1, <2>5 DEF Become, Kept, VodRow
    <3>2. QED BY <1>1, <2>1, <2>3, <2>4, <3>1 DEF Lost
  <2>6. QED BY <1>1, <2>1, <2>4, <2>5
<1>7. CASE Unname(c)
  <2>1. /\ job[c].pc = "unname" /\ vod' = vod /\ faults' = faults
        /\ \A s \in Recording : s # r => recording'[s] = recording[s]
    BY <1>1, <1>2, <1>7 DEF Unname, At, update
  <2>2. job'[c].pc = "later"
    BY <1>1, <1>7 DEF Unname, Job
  <2>3. ASSUME NEW v \in Vod, Owned(c, v)
        PROVE  Owned(c, v)'
    <3>1. PICK s \in Recording : recording[s].vod = v /\ s # r
      BY <1>2, <2>1, <2>3 DEF Owned, Clearing
    <3>2. recording'[s].vod = v
      BY <2>1, <3>1
    <3>3. QED BY <2>2, <3>2, NamedIsOwned
  <2>4. QED BY <1>1, <2>1, <2>3 DEF Lost, Kept
<1>8. QED BY <1>4, <1>5, <1>6, <1>7

LEMMA MadeInHand ==
  ASSUME NEW c \in Coordinator, Sound(c), job[c].at \in Recording,
         NEW v \in Vod, CreateVod(c, v)
  PROVE  job'[c].pc = "name" /\ job'[c].at = job[c].at /\ rec(c)'.vod = v
<1>1. PICK r \in Recording : r = job[c].at
  OBVIOUS
<1>2. job[c].list[r] \in Row /\ job[c] \in Job /\ job \in [Coordinator -> Job]
  BY DEF Sound, TypeOK, Job
<1>3. job' = [job EXCEPT ![c] = [@ EXCEPT !.pc = "name", !.list[r].vod = v]]
  BY <1>1 DEF CreateVod
<1>4. job'[c].pc = "name" /\ job'[c].at = r
  BY <1>1, <1>2, <1>3 DEF Job
<1>5. job'[c].list = [job[c].list EXCEPT ![r] = [@ EXCEPT !.vod = v]]
  BY <1>2, <1>3 DEF Job
<1>6. job'[c].list[r].vod = v
  BY <1>2, <1>5 DEF Job, Row
<1>7. QED BY <1>1, <1>4, <1>6 DEF rec

LEMMA Making ==
  ASSUME NEW c \in Coordinator, Sound(c),
         \/ \E v \in Vod : CreateVod(c, v) \/ CreateLost(c, v)
         \/ Refused(c) /\ At(c, "create")
  PROVE  /\ faults' >= faults
         /\ \/ Lost(c)' \subseteq Lost(c)
            \/ faults' = faults + 1 /\ \E v : Lost(c)' \subseteq Lost(c) \cup {v}
<1>1. /\ job \in [Coordinator -> Job] /\ job[c] \in Job /\ faults \in Nat
      /\ recording \in [Recording -> Row] /\ vod \in [Vod -> VodRow]
  BY DEF Sound, TypeOK
<1>2. job[c].pc = "create"
  BY DEF CreateVod, CreateLost, Refused, At
<1>3. /\ job[c].at \in Recording /\ rec(c).vod = NoVod
      /\ recording[job[c].at].vod = NoVod
  BY <1>1, <1>2 DEF Sound, Inv, HandOK, Job
<1>4. recording' = recording
  BY <1>2 DEF CreateVod, CreateLost, Refused, At, media
\* Before the step all that is owned is named, and not by the row at work.
<1>5. ASSUME NEW v \in Vod, Owned(c, v)
      PROVE  \E s \in Recording : s # job[c].at /\ recording[s].vod = v
  <2>1. PICK s \in Recording : recording[s].vod = v
    BY <1>2, <1>5, OwnedIsNamed
  <2>2. s # job[c].at
    BY <1>3, <2>1 DEF Vod, NoVod
  <2>3. QED BY <2>1, <2>2
<1>6. job'[c].at = job[c].at
  <2>1. CASE \E v \in Vod : CreateVod(c, v)
    BY <1>3, <2>1, MadeInHand
  <2>2. CASE \E v \in Vod : CreateLost(c, v)
    BY <1>1, <2>2, GoneTo DEF CreateLost
  <2>3. CASE Refused(c)
    BY <1>1, <1>2, <2>3, GoneTo DEF Refused, At, Job
  <2>4. QED BY <2>1, <2>2, <2>3
<1>7. ASSUME NEW v \in Vod, Owned(c, v)
      PROVE  Owned(c, v)'
  BY <1>4, <1>5, <1>6, <1>7 DEF Owned, Clearing
<1>8. ASSUME NEW v \in Vod, CreateVod(c, v) \/ CreateLost(c, v)
      PROVE  Lost(c)' \subseteq Lost(c) \cup {v}
  <2>1. \A u \in Vod : Kept(u)' => Kept(u) \/ u = v
    BY <1>1, <1>8 DEF CreateVod, CreateLost, Make, Kept
  <2>2. QED BY <1>7, <2>1 DEF Lost
<1>9. ASSUME NEW v \in Vod, CreateVod(c, v)
      PROVE  Lost(c)' \subseteq Lost(c) /\ faults' = faults
  <2>1. job'[c].pc = "name" /\ rec(c)'.vod = v
    BY <1>3, <1>9, MadeInHand
  <2>2. Owned(c, v)'
    BY <1>3, <1>6, <2>1, RecordingAssumption DEF Owned
  <2>3. QED BY <1>8, <1>9, <2>2 DEF Lost, CreateVod
<1>10. ASSUME NEW v \in Vod, CreateLost(c, v)
       PROVE  faults' = faults + 1
  BY <1>10 DEF CreateLost, Fault
<1>11. ASSUME Refused(c)
       PROVE  Lost(c)' \subseteq Lost(c) /\ faults' = faults
  BY <1>7, <1>11 DEF Refused, Lost, Kept
<1>12. QED BY <1>1, <1>8, <1>9, <1>10, <1>11

\* A crash loses at most the VOD in hand.
LEMMA Crashing ==
  ASSUME NEW c \in Coordinator, Sound(c), Crash(c)
  PROVE  faults' = faults + 1 /\ \E v : Lost(c)' \subseteq Lost(c) \cup {v}
<1>1. /\ job'[c] = Idle /\ faults' = faults + 1 /\ UNCHANGED <<recording, vod>>
  BY DEF Crash, Fault, media, Sound, TypeOK
<1>2. Idle.at = NoRecording /\ Idle.pc = "idle"
  BY DEF Idle
<1>3. ASSUME NEW v \in Vod, Owned(c, v), v # rec(c).vod
      PROVE  Owned(c, v)'
  BY <1>1, <1>2, <1>3 DEF Owned, Clearing
<1>4. Lost(c)' \subseteq Lost(c) \cup {rec(c).vod}
  BY <1>1, <1>3 DEF Lost, Kept
<1>5. QED BY <1>1, <1>4

LEMMA Worldly ==
  ASSUME NEW c \in Coordinator, Sound(c),
         \/ LeaseLapses \/ \E r \in Recording : Wait(r) \/ SessionEnds(r)
         \/ \E v \in Vod : SourceEnds(v)
         \/ UNCHANGED vars
  PROVE  Lost(c)' \subseteq Lost(c) /\ faults' >= faults
<1>1. faults' = faults /\ faults \in Nat /\ UNCHANGED job
  BY DEF LeaseLapses, Wait, SessionEnds, SourceEnds, vars, Sound, TypeOK
<1>2. NamesKept
  <2>1. CASE UNCHANGED recording
    BY <2>1 DEF NamesKept
  <2>2. ASSUME NEW r \in Recording, Wait(r)
        PROVE  NamesKept
    BY <2>2 DEF Wait, NamesKept, Sound, TypeOK, Row
  <2>3. QED BY <2>1, <2>2 DEF LeaseLapses, SessionEnds, SourceEnds, vars, media
<1>3. KeptOnly
  <2>1. CASE UNCHANGED vod
    BY <2>1, VodsSame
  <2>2. ASSUME NEW v \in Vod, SourceEnds(v)
        PROVE  KeptOnly
    BY <2>2, BecomeKeeps DEF SourceEnds, Sound, TypeOK
  <2>3. QED BY <2>1, <2>2 DEF LeaseLapses, Wait, SessionEnds, vars
<1>4. ASSUME NEW v \in Vod, Owned(c, v)
      PROVE  Owned(c, v)'
  BY <1>1, <1>2, <1>4 DEF Owned, Clearing, rec, NamesKept
<1>5. QED BY <1>1, <1>3, <1>4 DEF Lost, KeptOnly

LEMMA LeakStep ==
  ASSUME NEW c \in Coordinator, Coordinator = {c}, Sound(c), LeakInv(c), [Next]_vars
  PROVE  LeakInv(c)'
<1> DEFINE Bounded == \/ Lost(c)' \subseteq Lost(c) /\ faults' >= faults
                      \/ faults' = faults + 1 /\ \E v : Lost(c)' \subseteq Lost(c) \cup {v}
<1>1. ASSUME Work(c) PROVE Bounded
  <2>1. CASE StartTick(c) \/ ReadDue(c) \/ EndTick(c) \/ \E r \in Recording : Insert(c, r)
    BY <2>1, PlainTick
  <2>2. CASE \E r \in Recording : Branch(c, r)
    BY <2>2, PlainBranch
  <2>3. CASE AskMedia(c)
    <3>1. CASE \/ StartIngest(c) \/ OpenEgress(c) \/ Record(c) \/ RetryLater(c)
               \/ Refused(c) /\ ~At(c, "create")
      BY <3>1, PlainWork
    <3>2. CASE NameVod(c) \/ DropVod(c) \/ Unname(c)
      BY <3>2, Naming
    <3>3. CASE \/ \E v \in Vod : CreateVod(c, v)
               \/ Refused(c) /\ At(c, "create")
      BY <3>3, Making
    <3>4. QED BY <2>3, <3>1, <3>2, <3>3 DEF AskMedia
  <2>4. CASE CloseMedia(c)
    BY <2>4, PlainWork
  <2>5. QED BY <1>1, <2>1, <2>2, <2>3, <2>4 DEF Work
<1>2. ASSUME Trouble(c) PROVE Bounded
  <2>1. CASE \E v \in Vod : CreateLost(c, v)
    BY <2>1, Making
  <2>2. CASE NameFails(c) \/ DropFails(c)
    BY <2>2, Naming
  <2>3. CASE IngestLost(c) \/ FinalizeLost(c) \/ DiscardFails(c)
    BY <2>3, PlainWork
  <2>4. CASE Crash(c)
    BY <2>4, Crashing
  <2>5. QED BY <1>2, <2>1, <2>2, <2>3, <2>4 DEF Trouble
<1>3. ASSUME \/ LeaseLapses \/ \E r \in Recording : Wait(r) \/ SessionEnds(r)
             \/ \E v \in Vod : SourceEnds(v)
             \/ UNCHANGED vars
      PROVE  Bounded
  BY <1>3, Worldly
<1>4. Bounded
  BY <1>1, <1>2, <1>3, StepsOfOne
<1>5. Sound(c)'
  BY SoundStep
<1>6. /\ IsFiniteSet(Lost(c)) /\ Cardinality(Lost(c)) <= faults
      /\ faults \in Nat /\ faults' \in Nat
  BY <1>5, LostFinite DEF LeakInv, Sound, TypeOK
<1>7. Cardinality(Lost(c)') <= faults'
  BY <1>4, <1>6, LeakBound
<1>8. QED BY <1>7 DEF LeakInv

\* With one coordinator, every VOD left behind without a row that names it cost a
\* fault of its own.
THEOREM LeaksCostFaultsHolds ==
  ASSUME NEW c \in Coordinator, Coordinator = {c}
  PROVE  Spec => []LeaksCostFaults
<1>1. Init => LeakInv(c)
  <2>1. SUFFICES ASSUME Init PROVE LeakInv(c)
    OBVIOUS
  <2>2. Lost(c) = {}
    BY <2>1 DEF Init, Lost, Kept
  <2>3. QED BY <2>1, <2>2, FS_EmptySet DEF Init, LeakInv
<1>2. Sound(c) /\ LeakInv(c) /\ [Next]_vars => LeakInv(c)'
  BY LeakStep
<1>3. Sound(c) /\ LeakInv(c) => LeaksCostFaults
  <2>1. SUFFICES ASSUME Sound(c), LeakInv(c) PROVE LeaksCostFaults
    OBVIOUS
  <2>2. Leaked \subseteq Lost(c)
    <3>1. ASSUME NEW v \in Vod, Owned(c, v)
          PROVE  Named(v) \/ InHand(v)
      BY <3>1 DEF Owned, Named, InHand
    <3>2. QED BY <3>1 DEF Leaked, Lost
  <2>3. faults \in Nat
    BY <2>1 DEF Sound, TypeOK
  <2>4. QED BY <2>1, <2>2, <2>3, LostFinite, LeakBound DEF LeakInv, LeaksCostFaults
<1>4. QED BY <1>1, <1>2, <1>3, SoundAlways, PTL DEF Spec

-----------------------------------------------------------------------------
(* The refinement of RecordingLifecycle                                    *)

\* A request that was announced has a film, and moves on with it; what is being
\* closed is of a session that is over.
Traced(r) ==
  LET row == recording[r]
  IN  /\ told[r] > 0 => row.vod \in Vod
      /\ told[r] > 0 => row.state \in {"recording", "finalizing", "finalized", "failed"}
      /\ row.state \in {"recording", "finalizing", "finalized"} => told[r] > 0
      /\ row.state \in {"finalizing", "finalized"} => over[r]

\* What a tick has in hand: it closes only what is over, asks only for what can
\* be recorded, and knows the attempts of what it closes.
InHandTraced(c) ==
  /\ \A r \in Recording : job[c].list[r].state = "recording" => over[r]
  /\ job[c].pc \in Asking => request[job[c].at].protocol # "jsmpeg"
  /\ job[c].pc \in Closing => rec(c).attempts = recording[job[c].at].attempts

TracedAll(c) == Sound(c) /\ (\A r \in Recording : Traced(r)) /\ InHandTraced(c)

\* Nothing that the session's owner or Media could see happened to it.
Same(r) ==
  /\ recording'[r].state = recording[r].state /\ recording'[r].attempts = recording[r].attempts
  /\ told'[r] = told[r] /\ over'[r] = over[r]
  /\ filmOf(r)' = filmOf(r) /\ footageOf(r)' = footageOf(r)

LEMMA SameStays ==
  ASSUME NEW r \in Recording, Same(r)
  PROVE  Lifecycle!Move(r)
BY DEF Same, Lifecycle!Move, Lifecycle!Stay, Lifecycle!Becomes, Lifecycle!Unseen, Lifecycle!SameFilm

\* A step of one recording, and of VODs that are not those of others, leaves the
\* others as they were.
LEMMA OthersSame ==
  ASSUME NEW c \in Coordinator, TracedAll(c), NEW q \in Recording, NEW s \in Recording, s # q,
         recording'[s] = recording[s], told'[s] = told[s], over'[s] = over[s],
         \A v \in Vod : vod[v].of = s /\ vod[v].state # "none" => vod'[v].state = vod[v].state
  PROVE  Same(s)
<1>1. RowOK(s) /\ Traced(s) /\ told[s] \in Nat
  BY DEF TracedAll, Sound, Inv, TypeOK
<1>2. filmOf(s)' = filmOf(s)
  BY DEF filmOf
<1>3. filmOf(s) \in Vod => vod[filmOf(s)].of = s /\ vod[filmOf(s)].state # "none"
  BY <1>1 DEF filmOf, RowOK, Vod, NoVod
<1> QED
  BY <1>2, <1>3 DEF Same, footageOf

\* What was traced stays so along the life cycle.
LEMMA MoveTraces ==
  ASSUME NEW r \in Recording, recording \in [Recording -> Row], told \in [Recording -> Nat],
         over \in [Recording -> BOOLEAN], NoVod \notin Vod,
         Traced(r), Lifecycle!Move(r)
  PROVE  Traced(r)'
<1>1. (told[r] > 0 <=> filmOf(r) \in Vod) /\ (told[r] = 0 \/ told[r] > 0)
  BY DEF filmOf, Traced
<1>2. told'[r] = told[r] /\ filmOf(r)' = filmOf(r) => (told'[r] > 0 => recording'[r].vod \in Vod)
  BY <1>1 DEF filmOf
<1>3. CASE Lifecycle!Stay(r) \/ Lifecycle!Ask(r) \/ Lifecycle!Enlist(r) \/ Lifecycle!Close(r)
           \/ Lifecycle!Settle(r) \/ Lifecycle!Cancel(r) \/ Lifecycle!Reject(r)
  BY <1>1, <1>2, <1>3 DEF Traced, Lifecycle!Becomes, Lifecycle!Unseen, Lifecycle!SameFilm, Lifecycle!Stay, Lifecycle!Ask, Lifecycle!Enlist,
     Lifecycle!Close, Lifecycle!Settle, Lifecycle!Cancel, Lifecycle!Reject
<1>4. CASE Lifecycle!SessionEnds(r) \/ Lifecycle!Develop(r) \/ Lifecycle!Discard(r)
  BY <1>1, <1>2, <1>4 DEF Traced, Lifecycle!Becomes, Lifecycle!Unseen, Lifecycle!SameFilm, Lifecycle!SessionEnds, Lifecycle!Develop,
     Lifecycle!Develops, Lifecycle!Discard
<1>5. CASE Lifecycle!Retry(r) \/ Lifecycle!GiveUp(r)
  BY <1>1, <1>2, <1>5 DEF Traced, Lifecycle!Becomes, Lifecycle!Unseen, Lifecycle!SameFilm, Lifecycle!Retry, Lifecycle!GiveUp,
     Lifecycle!Failed, Lifecycle!Develops
<1>6. CASE Lifecycle!Begin(r)
  <2>1. told'[r] = 1 /\ filmOf(r)' \in Vod /\ recording'[r].state = "recording"
    BY <1>6 DEF Lifecycle!Begin, Lifecycle!Becomes
  <2> QED
    BY <2>1 DEF Traced, filmOf
<1> QED
  BY <1>3, <1>4, <1>5, <1>6 DEF Lifecycle!Move

\* A failed attempt: one more, or the end of the request.
LEMMA Retried ==
  ASSUME NEW row \in Row, NEW read \in Row, read.attempts = row.attempts, NEW disk \in BOOLEAN,
         NEW next, next = retryLater(row, read, disk)
  PROVE  /\ next.attempts = row.attempts + 1
         /\ \/ next.state = "failed" /\ row.attempts + 1 >= MAX_ATTEMPTS
            \/ /\ next.state = row.state /\ row.attempts + 1 < DISK_MAX_ATTEMPTS
               /\ ~disk => row.attempts + 1 < MAX_ATTEMPTS
<1>1. /\ limit(disk) \in Nat /\ MAX_ATTEMPTS <= limit(disk) /\ limit(disk) <= DISK_MAX_ATTEMPTS
      /\ ~disk => limit(disk) = MAX_ATTEMPTS
  BY DEF limit
<1>2. row.attempts \in Nat
  BY DEF Row, Attempts
<1>3. CASE row.attempts + 1 >= limit(disk)
  BY <1>1, <1>2, <1>3 DEF retryLater, Row
<1>4. CASE ~(row.attempts + 1 >= limit(disk))
  BY <1>1, <1>2, <1>4 DEF retryLater, Row
<1> QED
  BY <1>3, <1>4

\* What a tick holds keeps its trace when it goes on with the same thing or lets go.
LEMMA InHandKept ==
  ASSUME NEW c \in Coordinator, TracedAll(c), request' = request,
         \A r \in Recording : over[r] => over'[r],
         \A r \in Recording : job'[c].list[r].state = "recording" =>
                                job[c].list[r].state = "recording",
         job'[c].pc \in Asking => job[c].pc \in Asking /\ job'[c].at = job[c].at,
         job'[c].pc \in Closing =>
           /\ job[c].pc \in Closing /\ job'[c].at = job[c].at
           /\ job'[c].list = job[c].list
           /\ recording'[job[c].at].attempts = recording[job[c].at].attempts
  PROVE  InHandTraced(c)'
BY DEF TracedAll, InHandTraced, rec, Asking, Closing

\* Steps that change nothing that can be seen.
LEMMA UnseenSteps ==
  ASSUME NEW c \in Coordinator, TracedAll(c), UNCHANGED <<request, over, recording, told, vod>>
  PROVE  \A s \in Recording : Lifecycle!Move(s)
<1>1. ASSUME NEW s \in Recording
      PROVE  Same(s)
  BY DEF Same, filmOf, footageOf
<1> QED
  BY <1>1, SameStays

LEMMA TickMoves ==
  ASSUME NEW c \in Coordinator, Coordinator = {c}, TracedAll(c),
         StartTick(c) \/ ReadDue(c) \/ EndTick(c) \/ Crash(c)
  PROVE  (\A s \in Recording : Lifecycle!Move(s)) /\ InHandTraced(c)'
<1>1. UNCHANGED <<request, over, recording, told, vod>>
  BY DEF StartTick, ReadDue, EndTick, Crash, media
<1>2. InHandTraced(c)'
  <2>0. job \in [Coordinator -> Job] /\ job[c] \in Job
    BY DEF TracedAll, Sound, TypeOK
  <2>1. CASE StartTick(c)
    <3>1. job'[c].pc = "insert" /\ job'[c].list = job[c].list
      BY <2>0, <2>1 DEF StartTick, Job
    <3> QED
      BY <1>1, <3>1, InHandKept DEF Asking, Closing
  <2>2. CASE ReadDue(c)
    <3>1. /\ job'[c].pc = "next"
          /\ job'[c].list = [r \in Recording |-> IF r \in due THEN recording[r] ELSE NoRow]
      BY <2>0, <2>2 DEF ReadDue, Job
    <3>2. \A r \in Recording : job'[c].list[r].state = "recording" => over[r]
      BY <3>1 DEF due, NoRow
    <3> QED
      BY <1>1, <3>1, <3>2 DEF InHandTraced, Asking, Closing
  <2>3. CASE EndTick(c) \/ Crash(c)
    <3>1. job'[c] = Idle
      BY <2>0, <2>3 DEF EndTick, Crash
    <3> QED
      BY <3>1 DEF InHandTraced, Idle, NoRow, Asking, Closing
  <2> QED
    BY <2>1, <2>2, <2>3
<1> QED
  BY <1>1, <1>2, UnseenSteps

LEMMA InsertMoves ==
  ASSUME NEW c \in Coordinator, Coordinator = {c}, TracedAll(c), NEW r \in Recording, Insert(c, r)
  PROVE  (\A s \in Recording : Lifecycle!Move(s)) /\ InHandTraced(c)'
<1>0. job \in [Coordinator -> Job] /\ job[c] \in Job /\ recording \in [Recording -> Row]
  BY DEF TracedAll, Sound, TypeOK
<1>1. CASE recording[r].state = "none"
  <2>1. /\ recording' = [recording EXCEPT ![r] = [NoRow EXCEPT !.state = "pending"]]
        /\ UNCHANGED <<request, over, told, vod>>
    BY <1>1 DEF Insert, update
  <2>2. recording'[r].state = "pending" /\ recording'[r].attempts = 0
    BY <1>0, <2>1 DEF NoRow
  <2>3. Lifecycle!Move(r)
    <3>1. told[r] = 0
      BY <1>1 DEF TracedAll, Sound, Inv, RowOK
    <3>2. filmOf(r)' = filmOf(r) /\ footageOf(r)' = footageOf(r)
      BY <2>1, <3>1 DEF filmOf, footageOf
    <3> QED
      BY <1>1, <2>1, <2>2, <3>2 DEF Lifecycle!Move, Lifecycle!Enlist, Lifecycle!Becomes,
         Lifecycle!Unseen, Lifecycle!SameFilm
  <2>4. ASSUME NEW s \in Recording, s # r
        PROVE  Lifecycle!Move(s)
    BY <1>0, <2>1, <2>4, OthersSame, SameStays
  <2>5. job'[c].pc = "insert" /\ job'[c].list = job[c].list
    BY <1>0, <1>1 DEF Insert, At, Job
  <2>6. InHandTraced(c)'
    BY <2>1, <2>5, InHandKept DEF Asking, Closing
  <2> QED
    BY <2>3, <2>4, <2>6
<1>2. CASE recording[r].state # "none"
  <2>1. job'[c] = Idle /\ UNCHANGED <<request, over, recording, told, vod>>
    BY <1>0, <1>2 DEF Insert
  <2> QED
    BY <2>1, UnseenSteps DEF InHandTraced, Idle, NoRow, Asking, Closing
<1> QED
  BY <1>1, <1>2

\* The step of a row ends: nothing is in hand any more.
LEMMA SteppedHand ==
  ASSUME NEW c \in Coordinator, TracedAll(c), NEW r \in Recording, Stepped(c, r),
         UNCHANGED <<request, over>>
  PROVE  InHandTraced(c)'
<1>1. job \in [Coordinator -> Job] /\ job[c] \in Job
  BY DEF TracedAll, Sound, TypeOK
<1>2. job'[c].pc = "next" /\ job'[c].list = [job[c].list EXCEPT ![r] = NoRow]
  BY <1>1 DEF Stepped, Job
<1>3. \A s \in Recording : job'[c].list[s].state = "recording" => job[c].list[s].state = "recording"
  BY <1>1, <1>2 DEF NoRow, Job
<1> QED
  BY <1>2, <1>3, InHandKept DEF Asking, Closing

\* Only row r changes, and nobody was told: the others stay, and so does its film.
LEMMA RowChanged ==
  ASSUME NEW c \in Coordinator, TracedAll(c), NEW r \in Recording, NEW row \in Row,
         update(r, row), UNCHANGED <<request, over, told, vod>>,
         row.vod = recording[r].vod \/ told[r] = 0
  PROVE  /\ recording'[r] = row
         /\ filmOf(r)' = filmOf(r) /\ footageOf(r)' = footageOf(r)
         /\ \A s \in Recording \ {r} : Lifecycle!Move(s)
<1>1. recording \in [Recording -> Row] /\ told \in [Recording -> Nat]
  BY DEF TracedAll, Sound, TypeOK
<1>2. recording'[r] = row /\ \A s \in Recording \ {r} : recording'[s] = recording[s]
  BY <1>1 DEF update
<1>3. filmOf(r)' = filmOf(r) /\ footageOf(r)' = footageOf(r)
  BY <1>1, <1>2 DEF filmOf, footageOf
<1>4. ASSUME NEW s \in Recording, s # r
      PROVE  Lifecycle!Move(s)
  BY <1>2, <1>4, OthersSame, SameStays
<1> QED
  BY <1>2, <1>3, <1>4

LEMMA BranchMoves ==
  ASSUME NEW c \in Coordinator, Coordinator = {c}, TracedAll(c), NEW r \in Recording,
         RejectJsmpeg(c, r) \/ Cancel(c, r) \/ NotReady(c, r) \/ Resume(c, r)
  PROVE  (\A s \in Recording : Lifecycle!Move(s)) /\ InHandTraced(c)'
<1>1. /\ recording[r] \in Row /\ job[c].list[r] = recording[r]
      /\ recording[r].state \in {"pending", "requested"} /\ told[r] = 0
      /\ recording[r].state = "requested" => Resume(c, r)
      /\ Resume(c, r) => recording[r].state = "requested"
  <2>1. PICK states \in SUBSET {"pending", "requested"} :
           /\ Picked(c, r, states)
           /\ Resume(c, r) \/ states = {"pending"}
           /\ Resume(c, r) => states = {"requested"}
    BY DEF RejectJsmpeg, Cancel, NotReady, Resume, Picked
  <2> QED
    BY <2>1, PickedRow DEF TracedAll, RowOK
<1>2. Stepped(c, r) /\ UNCHANGED <<request, over, vod, told>>
  BY DEF RejectJsmpeg, Cancel, NotReady, Resume, Picked
<1>3. InHandTraced(c)'
  BY <1>2, SteppedHand
<1>4. CASE RejectJsmpeg(c, r)
  <2>1. PICK row \in Row : /\ row = [recording[r] EXCEPT !.state = "failed"] /\ update(r, row)
                           /\ row.state = "failed" /\ row.attempts = recording[r].attempts
    BY <1>1, <1>4 DEF RejectJsmpeg, Row, Settled
  <2>2. Lifecycle!Move(r)
    BY <1>1, <1>2, <1>4, <2>1, RowChanged DEF RejectJsmpeg, Picked, Lifecycle!Move, Lifecycle!Reject,
       Lifecycle!Becomes, Lifecycle!Unseen, Lifecycle!SameFilm
  <2> QED
    BY <1>1, <1>2, <1>3, <2>1, <2>2, RowChanged
<1>5. CASE Cancel(c, r)
  <2>1. PICK row \in Row : /\ row = [recording[r] EXCEPT !.state = "cancelled"] /\ update(r, row)
                           /\ row.state = "cancelled" /\ row.attempts = recording[r].attempts
    BY <1>1, <1>5 DEF Cancel, Row, Settled
  <2>2. Lifecycle!Move(r)
    BY <1>1, <1>2, <1>5, <2>1, RowChanged DEF Cancel, Recordable, Lifecycle!Move, Lifecycle!Cancel,
       Lifecycle!Becomes, Lifecycle!Unseen, Lifecycle!SameFilm, Picked
  <2> QED
    BY <1>1, <1>2, <1>3, <2>1, <2>2, RowChanged
<1>6. CASE Resume(c, r)
  <2>1. PICK row \in Row : /\ row = [recording[r] EXCEPT !.state = "pending"] /\ update(r, row)
                           /\ row.state = "pending" /\ row.attempts = recording[r].attempts
    BY <1>1, <1>6 DEF Resume, Row
  <2>2. Lifecycle!Move(r)
    BY <1>1, <1>2, <2>1, RowChanged DEF Lifecycle!Move, Lifecycle!Ask,
       Lifecycle!Becomes, Lifecycle!Unseen, Lifecycle!SameFilm
  <2> QED
    BY <1>1, <1>2, <1>3, <2>1, <2>2, RowChanged
<1>7. CASE NotReady(c, r)
  <2>1. PICK row \in Row : row = retryLater(recording[r], recording[r], FALSE) /\ update(r, row)
    <3>1. recording[r].attempts < DISK_MAX_ATTEMPTS
      BY <1>1 DEF TracedAll, Sound, Inv, RowOK
    <3> QED
      BY <1>1, <1>7, <3>1, RetryType DEF NotReady
  <2>2. /\ row.attempts = recording[r].attempts + 1
        /\ \/ row.state = "failed" /\ recording[r].attempts + 1 >= MAX_ATTEMPTS
           \/ row.state = "pending" /\ recording[r].attempts + 1 < DISK_MAX_ATTEMPTS
    <3>1. recording[r].state = "pending"
      BY <1>1, <1>7 DEF NotReady, Picked
    <3>2. PICK disk \in BOOLEAN : disk = FALSE /\ row = retryLater(recording[r], recording[r], disk)
      BY <2>1
    <3> QED
      BY <1>1, <3>1, <3>2, Retried
  <2>3. Lifecycle!Move(r)
    <3>1. recording[r].state = "pending"
      BY <1>1, <1>7 DEF NotReady, Picked
    <3> QED
      BY <1>1, <1>2, <2>1, <2>2, <3>1, RowChanged DEF Lifecycle!Move, Lifecycle!Retry, Lifecycle!GiveUp,
         Lifecycle!Failed, Lifecycle!Becomes, Lifecycle!Unseen, Lifecycle!SameFilm
  <2> QED
    BY <1>1, <1>2, <1>3, <2>1, <2>3, RowChanged
<1> QED
  BY <1>4, <1>5, <1>6, <1>7

LEMMA AskMoves ==
  ASSUME NEW c \in Coordinator, Coordinator = {c}, TracedAll(c), NEW r \in Recording, Ask(c, r)
  PROVE  (\A s \in Recording : Lifecycle!Move(s)) /\ InHandTraced(c)'
<1>0. job \in [Coordinator -> Job] /\ job[c] \in Job
  BY DEF TracedAll, Sound, TypeOK
<1>1. UNCHANGED <<request, over, recording, told, vod>> /\ request[r].protocol # "jsmpeg"
  BY DEF Ask, Picked, Recordable
<1>2. PICK pc \in {"create", "ingest"} : job' = [job EXCEPT ![c].at = r, ![c].pc = pc]
  BY DEF Ask
<1>3. job'[c].pc \in Asking /\ job'[c].pc \notin Closing /\ job'[c].at = r
      /\ job'[c].list = job[c].list
  BY <1>0, <1>2 DEF Asking, Closing, Job
<1>4. InHandTraced(c)'
  BY <1>1, <1>3 DEF TracedAll, InHandTraced
<1> QED
  BY <1>1, <1>4, UnseenSteps

LEMMA StartFinalizingMoves ==
  ASSUME NEW c \in Coordinator, Coordinator = {c}, TracedAll(c), NEW r \in Recording,
         StartFinalizing(c, r)
  PROVE  (\A s \in Recording : Lifecycle!Move(s)) /\ InHandTraced(c)'
<1>0. job \in [Coordinator -> Job] /\ job[c] \in Job /\ recording \in [Recording -> Row]
  BY DEF TracedAll, Sound, TypeOK
<1>1. /\ recording[r] \in Row /\ job[c].list[r] = recording[r]
      /\ recording[r].state \in {"recording", "finalizing"}
  BY PickedRow DEF StartFinalizing, TracedAll
<1>2. over[r]
  BY <1>1 DEF TracedAll, InHandTraced, Traced
<1>3. PICK row \in Row : /\ row = [recording[r] EXCEPT !.state = "finalizing"]
                         /\ row.state = "finalizing" /\ row.vod = recording[r].vod
                         /\ row.attempts = recording[r].attempts
                         /\ recording[r].state = "finalizing" => row = recording[r]
  <2>1. recording[r].state = "finalizing" => [recording[r] EXCEPT !.state = "finalizing"] = recording[r]
    BY <1>1 DEF Row
  <2>2. [recording[r] EXCEPT !.state = "finalizing"] \in Row
    BY <1>1 DEF Row
  <2> QED
    BY <1>1, <2>1, <2>2 DEF Row
<1>4. PICK pc \in {"stop", "finalize"} :
        /\ update(r, row) /\ UNCHANGED <<request, over, told, vod>>
        /\ job' = [job EXCEPT ![c] = [@ EXCEPT !.at = r, !.list[r] = row, !.pc = pc]]
  BY <1>1, <1>3 DEF StartFinalizing, Picked
<1>5. Lifecycle!Move(r)
  BY <1>1, <1>2, <1>3, <1>4, RowChanged DEF Lifecycle!Move, Lifecycle!Close, Lifecycle!Stay,
     Lifecycle!Becomes, Lifecycle!Unseen, Lifecycle!SameFilm
<1>6. /\ job'[c].pc \in Closing /\ job'[c].pc \notin Asking /\ job'[c].at = r
      /\ job'[c].list = [job[c].list EXCEPT ![r] = row]
  BY <1>0, <1>4 DEF Closing, Asking, Job
<1>7. /\ job'[c].list[r] = row
      /\ \A s \in Recording \ {r} : job'[c].list[s] = job[c].list[s]
  BY <1>0, <1>6 DEF Job
<1>8. recording'[r] = row
  BY <1>3, <1>4, RowChanged
<1>9. InHandTraced(c)'
  BY <1>3, <1>4, <1>6, <1>7, <1>8 DEF TracedAll, InHandTraced, rec
<1> QED
  BY <1>3, <1>4, <1>5, <1>9, RowChanged

\* A step in hand goes on, or comes to naming and clearing what it asked for.
LEMMA GoMoves ==
  ASSUME NEW c \in Coordinator, Coordinator = {c}, TracedAll(c),
         \/ NameFails(c) \/ OpenEgress(c) \/ Refused(c) \/ DropFails(c)
         \/ StopIngest(c) \/ FinalizedAlready(c) \/ DiscardFails(c)
  PROVE  (\A s \in Recording : Lifecycle!Move(s)) /\ InHandTraced(c)'
<1>0. job \in [Coordinator -> Job] /\ job[c] \in Job
  BY DEF TracedAll, Sound, TypeOK
<1>1. UNCHANGED <<request, over, recording, told, vod>>
  BY DEF NameFails, OpenEgress, Refused, DropFails, StopIngest, FinalizedAlready,
         DiscardFails, media
<1>2. /\ job'[c].at = job[c].at /\ job'[c].list = job[c].list
      /\ \/ job'[c].pc \in {"drop", "record", "unname"}
            /\ job[c].pc \in {"name", "ingest", "egress", "create", "drop"}
         \/ job'[c].pc \in {"finalize", "settle"} /\ job[c].pc \in {"stop", "finalize", "discard"}
  BY <1>0 DEF NameFails, OpenEgress, Refused, DropFails, StopIngest, FinalizedAlready,
              DiscardFails, Go, At, Job
<1>3. /\ job'[c].pc \in Asking => job[c].pc \in Asking
      /\ job'[c].pc \in Closing => job[c].pc \in Closing
  BY <1>2 DEF Asking, Closing
<1>4. InHandTraced(c)'
  BY <1>1, <1>2, <1>3, InHandKept
<1> QED
  BY <1>1, <1>4, UnseenSteps

\* What the tick works on.
LEMMA AtWork ==
  ASSUME NEW c \in Coordinator, TracedAll(c), job[c].pc \notin {"idle", "insert", "next"}
  PROVE  /\ job[c].at \in Recording /\ recording[job[c].at] \in Row /\ rec(c) \in Row
         /\ RowOK(job[c].at) /\ Traced(job[c].at)
         /\ told[job[c].at] \in Nat /\ over[job[c].at] \in BOOLEAN
<1>1. job[c] \in Job /\ job[c].at # NoRecording
  BY DEF TracedAll, Sound, TypeOK, Inv, HandOK
<1>2. job[c].at \in Recording
  BY <1>1 DEF Job
<1> QED
  BY <1>1, <1>2 DEF TracedAll, Sound, TypeOK, Inv, Job, rec

LEMMA VodMoves ==
  ASSUME NEW c \in Coordinator, Coordinator = {c}, TracedAll(c),
         StartIngest(c) \/ IngestLost(c) \/ DropVod(c) \/ Finalize(c) \/ DiscardClips(c)
  PROVE  (\A s \in Recording : Lifecycle!Move(s)) /\ InHandTraced(c)'
<1>0. job \in [Coordinator -> Job] /\ job[c] \in Job /\ vod \in [Vod -> VodRow]
  BY DEF TracedAll, Sound, TypeOK
<1>1. PICK r \in Recording, v \in Vod, state \in {"ingesting", "finalized", "deleted"} :
        /\ r = job[c].at /\ v = rec(c).vod /\ vod[v].of = r /\ Become(v, state)
        /\ RowOK(r) /\ Traced(r)
        /\ \/ job[c].pc \in {"ingest", "drop"} /\ job'[c].pc \in {"egress", "record", "drop", "unname"}
           \/ /\ job[c].pc = "finalize" /\ vod[v].state = "ingesting" /\ state = "finalized"
              /\ job'[c].pc \in {"discard", "settle"}
           \/ job[c].pc = "discard" /\ state = "deleted" /\ job'[c].pc = "settle"
  <2>1. job[c].pc \in {"ingest", "drop", "finalize", "discard"}
    BY DEF StartIngest, IngestLost, DropVod, Finalize, DiscardClips, At
  <2>2. /\ job[c].at \in Recording /\ RowOK(job[c].at) /\ Traced(job[c].at)
        /\ rec(c).vod \in Vod /\ vod[rec(c).vod].of = job[c].at
    BY <2>1, AtWork DEF TracedAll, Sound, Inv, HandOK, Closing
  <2> QED
    BY <1>0, <2>2 DEF StartIngest, IngestLost, DropVod, Finalize, DiscardClips, At, Go, Job
<1>2. /\ UNCHANGED <<request, over, recording, told>>
      /\ job'[c].at = job[c].at /\ job'[c].list = job[c].list
  BY <1>0 DEF StartIngest, IngestLost, DropVod, Finalize, DiscardClips, media, Go, Job
<1>3. /\ job'[c].pc \in Asking => job[c].pc \in Asking
      /\ job'[c].pc \in Closing => job[c].pc \in Closing
  BY <1>1 DEF Asking, Closing
<1>4. InHandTraced(c)'
  BY <1>2, <1>3, InHandKept
<1>5. ASSUME NEW s \in Recording, s # r
      PROVE  Lifecycle!Move(s)
  <2>1. \A u \in Vod : vod[u].of = s => vod'[u] = vod[u]
    BY <1>0, <1>1, <1>5 DEF Become
  <2> QED
    BY <1>2, <1>5, <2>1, OthersSame, SameStays
<1>6. vod'[v].state = state /\ filmOf(r)' = filmOf(r)
  BY <1>0, <1>1, <1>2 DEF Become, VodRow, filmOf
<1>7. CASE job[c].pc \in {"ingest", "drop"}
  <2>1. recording[r].state \in {"pending", "requested"} /\ told[r] = 0
    BY <1>1, <1>7 DEF TracedAll, Sound, Inv, HandOK, Asking, RowOK
  <2>2. Same(r)
    BY <1>2, <2>1 DEF Same, filmOf, footageOf, Vod, NoVod
  <2> QED
    BY <1>4, <1>5, <2>2, SameStays
<1>8. ASSUME job[c].pc \in {"finalize", "discard"}
      PROVE  Lifecycle!Move(r)
  <2>1. /\ recording[r].state = "finalizing" /\ recording[r].vod = v /\ over[r] /\ told[r] > 0
        /\ job[c].pc = "discard" => request[r].mode = "clips" /\ Real(v, r)
    BY <1>1, <1>8 DEF TracedAll, Sound, Inv, HandOK, Closing, Traced
  <2>2. filmOf(r) = v /\ footageOf(r) = vod[v].state /\ footageOf(r)' = state
    BY <1>1, <1>2, <1>6, <2>1 DEF filmOf, footageOf
  <2>3. CASE job[c].pc = "finalize"
    <3>1. footageOf(r) = "ingesting" /\ footageOf(r)' = "finalized"
      BY <1>1, <2>2, <2>3
    <3>2. Lifecycle!Develops(r)
      BY <1>2, <1>6, <2>1, <3>1 DEF Lifecycle!Develops, Lifecycle!SameFilm
    <3> QED
      BY <1>2, <3>2 DEF Lifecycle!Move, Lifecycle!Develop, Lifecycle!Becomes
  <2>4. CASE job[c].pc = "discard" /\ vod[v].state = "finalized"
    <3>1. footageOf(r) = "finalized" /\ footageOf(r)' = "deleted"
      BY <1>1, <2>2, <2>4
    <3> QED
      BY <1>2, <1>6, <2>1, <2>4, <3>1 DEF Lifecycle!Move, Lifecycle!Discard,
         Lifecycle!Becomes, Lifecycle!SameFilm
  <2>5. CASE job[c].pc = "discard" /\ vod[v].state # "finalized"
    <3>1. footageOf(r)' = footageOf(r)
      BY <1>1, <2>1, <2>2, <2>5 DEF Real
    <3>2. Same(r)
      BY <1>2, <1>6, <3>1 DEF Same
    <3> QED
      BY <3>2, SameStays
  <2> QED
    BY <1>8, <2>3, <2>4, <2>5
<1> QED
  BY <1>1, <1>4, <1>5, <1>7, <1>8

LEMMA CreateMoves ==
  ASSUME NEW c \in Coordinator, Coordinator = {c}, TracedAll(c), NEW v \in Vod,
         CreateVod(c, v) \/ CreateLost(c, v)
  PROVE  (\A s \in Recording : Lifecycle!Move(s)) /\ InHandTraced(c)'
<1>0. job \in [Coordinator -> Job] /\ job[c] \in Job /\ vod \in [Vod -> VodRow]
  BY DEF TracedAll, Sound, TypeOK
<1>1. /\ vod[v].state = "none" /\ Make(v, job[c].at) /\ UNCHANGED <<request, over, recording, told>>
      /\ job[c].pc = "create" /\ job[c].at \in Recording
  BY AtWork DEF CreateVod, CreateLost, Fresh, media, At
<1>2. ASSUME NEW s \in Recording
      PROVE  Same(s)
  <2>1. RowOK(s) /\ Traced(s) /\ told[s] \in Nat
    BY DEF TracedAll, Sound, Inv, TypeOK
  <2>2. filmOf(s) \in Vod => filmOf(s) # v
    BY <1>1, <2>1 DEF filmOf, RowOK, Vod, NoVod
  <2>3. \A u \in Vod \ {v} : vod'[u] = vod[u]
    BY <1>0, <1>1 DEF Make
  <2> QED
    BY <1>1, <2>2, <2>3 DEF Same, filmOf, footageOf
<1>3. /\ job'[c].pc \in {"name", "unname"} /\ job'[c].at = job[c].at
      /\ \A s \in Recording : job'[c].list[s].state = job[c].list[s].state
  <2>1. PICK r \in Recording : r = job[c].at
    BY <1>1
  <2>2. CASE CreateVod(c, v)
    <3>1. job' = [job EXCEPT ![c] = [@ EXCEPT !.pc = "name", !.list[r].vod = v]]
      BY <2>1, <2>2 DEF CreateVod
    <3>2. job'[c].pc = "name" /\ job'[c].at = r /\ job'[c].list = [job[c].list EXCEPT ![r].vod = v]
      BY <1>0, <2>1, <3>1 DEF Job
    <3> QED
      BY <1>0, <2>1, <3>2 DEF Job, Row
  <2>3. CASE CreateLost(c, v)
    BY <1>0, <2>3 DEF CreateLost, Go, Job
  <2> QED
    BY <2>2, <2>3
<1>4. /\ job'[c].pc \in Asking => job[c].pc \in Asking /\ job'[c].at = job[c].at
      /\ job'[c].pc \notin Closing
  BY <1>1, <1>3 DEF Asking, Closing
<1>5. InHandTraced(c)'
  BY <1>1, <1>3, <1>4, InHandKept
<1> QED
  BY <1>2, <1>5, SameStays

LEMMA NameMoves ==
  ASSUME NEW c \in Coordinator, Coordinator = {c}, TracedAll(c), NameVod(c) \/ Unname(c)
  PROVE  (\A s \in Recording : Lifecycle!Move(s)) /\ InHandTraced(c)'
<1>0. job \in [Coordinator -> Job] /\ job[c] \in Job
  BY DEF TracedAll, Sound, TypeOK
<1>1. job[c].pc \in {"name", "unname"}
  BY DEF NameVod, Unname, At
<1>2. PICK r \in Recording : /\ r = job[c].at /\ recording[r] \in Row /\ rec(c) \in Row
                             /\ recording[r].state \in {"pending", "requested"} /\ told[r] = 0
  BY <1>1, AtWork DEF TracedAll, Sound, Inv, HandOK, Asking, RowOK
<1>3. UNCHANGED <<request, over, told, vod>>
  BY DEF NameVod, Unname
<1>4. PICK row \in Row : /\ update(r, row) /\ row.state \in {"pending", "requested"}
                         /\ row.attempts = recording[r].attempts
  <2>1. CASE NameVod(c)
    <3>1. [recording[r] EXCEPT !.vod = rec(c).vod, !.state = "requested"] \in Row
      BY <1>2 DEF Row
    <3> QED
      BY <1>2, <2>1, <3>1 DEF NameVod, Row
  <2>2. CASE Unname(c)
    <3>1. [recording[r] EXCEPT !.vod = NoVod, !.state = "pending"] \in Row
      BY <1>2 DEF Row
    <3> QED
      BY <1>2, <2>2, <3>1 DEF Unname, Row
  <2> QED
    BY <2>1, <2>2
<1>5. Lifecycle!Move(r)
  BY <1>2, <1>3, <1>4, RowChanged DEF Lifecycle!Move, Lifecycle!Ask, Lifecycle!Becomes,
     Lifecycle!Unseen, Lifecycle!SameFilm
<1>6. /\ job'[c].pc \in {"ingest", "later"} /\ job'[c].at = r
      /\ \A s \in Recording : job'[c].list[s].state = "recording" => job[c].list[s].state = "recording"
  <2>1. CASE NameVod(c)
    <3>1. PICK new : new = [recording[r] EXCEPT !.vod = rec(c).vod, !.state = "requested"]
      OBVIOUS
    <3>2. new.state = "requested" /\ job' = [job EXCEPT ![c] = [@ EXCEPT !.pc = "ingest", !.list[r] = new]]
      BY <1>2, <2>1, <3>1 DEF NameVod, Row
    <3> QED
      BY <1>0, <1>2, <3>2 DEF Job
  <2>2. CASE Unname(c)
    BY <1>0, <1>2, <2>2 DEF Unname, Job, Row
  <2> QED
    BY <2>1, <2>2
<1>7. InHandTraced(c)'
  <2>1. /\ job'[c].pc \in Asking => job[c].pc \in Asking /\ job'[c].at = job[c].at
        /\ job'[c].pc \notin Closing
    BY <1>1, <1>2, <1>6 DEF Asking, Closing
  <2> QED
    BY <1>3, <1>6, <2>1, InHandKept
<1> QED
  BY <1>2, <1>3, <1>4, <1>5, <1>7, RowChanged

\* A step's last update: the announcement, another attempt, or the end.
LEMMA RecordMoves ==
  ASSUME NEW c \in Coordinator, Coordinator = {c}, TracedAll(c), Record(c)
  PROVE  (\A s \in Recording : Lifecycle!Move(s)) /\ InHandTraced(c)'
<1>1. PICK r \in Recording :
        /\ r = job[c].at /\ recording[r] \in Row /\ recording[r].vod \in Vod
        /\ recording[r].state \in {"pending", "requested"} /\ told[r] = 0
        /\ vod[recording[r].vod].state \in {"ingesting", "finalized"}
        /\ vod[recording[r].vod].of = r /\ request[r].protocol # "jsmpeg"
  BY AtWork DEF Record, At, TracedAll, Sound, Inv, HandOK, Asking, RowOK, InHandTraced
<1>2. /\ UNCHANGED <<request, over, vod>> /\ Stepped(c, r)
      /\ update(r, [recording[r] EXCEPT !.state = "recording", !.attempts = 0, !.due = TRUE])
      /\ told' = [told EXCEPT ![r] = @ + 1]
  BY <1>1 DEF Record
<1>3. recording \in [Recording -> Row] /\ told \in [Recording -> Nat]
  BY DEF TracedAll, Sound, TypeOK
<1>4. /\ recording'[r].state = "recording" /\ recording'[r].attempts = 0
      /\ recording'[r].vod = recording[r].vod /\ told'[r] = 1
      /\ \A s \in Recording \ {r} : recording'[s] = recording[s] /\ told'[s] = told[s]
  BY <1>1, <1>2, <1>3 DEF update, Row
<1>5. filmOf(r)' = recording[r].vod /\ footageOf(r)' = vod[recording[r].vod].state
  BY <1>1, <1>2, <1>4 DEF filmOf, footageOf
<1>6. ASSUME NEW q \in Recording, q # r
      PROVE  filmOf(q) # recording[r].vod
  <2>1. RowOK(q)
    BY DEF TracedAll, Sound, Inv
  <2> QED
    BY <1>1, <1>6, <2>1 DEF filmOf, RowOK, Vod, NoVod
<1>7. Lifecycle!Move(r)
  BY <1>1, <1>2, <1>4, <1>5, <1>6 DEF Lifecycle!Move, Lifecycle!Begin, Lifecycle!Becomes
<1>8. ASSUME NEW s \in Recording, s # r
      PROVE  Lifecycle!Move(s)
  BY <1>2, <1>4, <1>8, OthersSame, SameStays
<1> QED
  BY <1>2, <1>7, <1>8, SteppedHand

LEMMA SettleMoves ==
  ASSUME NEW c \in Coordinator, Coordinator = {c}, TracedAll(c), Settle(c)
  PROVE  (\A s \in Recording : Lifecycle!Move(s)) /\ InHandTraced(c)'
<1>1. PICK r \in Recording :
        /\ r = job[c].at /\ recording[r] \in Row /\ recording[r].vod \in Vod
        /\ recording[r].state = "finalizing" /\ told[r] > 0 /\ Real(recording[r].vod, r)
  BY AtWork DEF Settle, At, TracedAll, Sound, Inv, HandOK, Closing, Traced
<1>2. PICK row \in Row : /\ row = [recording[r] EXCEPT !.state = "finalized"] /\ update(r, row)
                         /\ row.state = "finalized" /\ row.attempts = recording[r].attempts
                         /\ row.vod = recording[r].vod
  <2>1. [recording[r] EXCEPT !.state = "finalized"] \in Row
    BY <1>1 DEF Row, Settled
  <2> QED
    BY <1>1, <2>1 DEF Settle, Row
<1>3. UNCHANGED <<request, over, told, vod>> /\ Stepped(c, r)
  BY <1>1 DEF Settle
<1>4. footageOf(r) \in {"finalized", "deleted"}
  BY <1>1 DEF footageOf, filmOf, Real
<1>5. Lifecycle!Move(r)
  <2>1. recording'[r] = row /\ filmOf(r)' = filmOf(r) /\ footageOf(r)' = footageOf(r)
    BY <1>2, <1>3, RowChanged
  <2> QED
    BY <1>1, <1>2, <1>3, <1>4, <2>1 DEF Lifecycle!Move, Lifecycle!Settle, Lifecycle!Becomes,
       Lifecycle!Unseen, Lifecycle!SameFilm
<1> QED
  BY <1>2, <1>3, <1>5, RowChanged, SteppedHand

LEMMA RetryMoves ==
  ASSUME NEW c \in Coordinator, Coordinator = {c}, TracedAll(c),
         RetryLater(c) \/ FinalizeRefused(c) \/ FinalizeLost(c)
  PROVE  (\A s \in Recording : Lifecycle!Move(s)) /\ InHandTraced(c)'
<1>0. recording \in [Recording -> Row] /\ vod \in [Vod -> VodRow] /\ job[c].disk \in BOOLEAN
  BY DEF TracedAll, Sound, TypeOK, Job
<1>1. PICK r \in Recording, read \in Row, disk \in BOOLEAN :
        /\ r = job[c].at /\ recording[r] \in Row /\ RowOK(r) /\ Traced(r)
        /\ read.attempts = recording[r].attempts
        /\ update(r, retryLater(recording[r], read, disk)) /\ Stepped(c, r)
        /\ \/ recording[r].state = "pending" /\ told[r] = 0 /\ RetryLater(c)
           \/ /\ recording[r].state = "finalizing" /\ ~disk
              /\ FinalizeRefused(c) \/ FinalizeLost(c)
  <2>1. CASE RetryLater(c)
    <3>1. job[c].pc = "later" /\ job[c].pc \notin {"idle", "insert", "next"}
      BY <2>1 DEF RetryLater, At
    <3>2. /\ job[c].at \in Recording /\ recording[job[c].at] \in Row
          /\ RowOK(job[c].at) /\ Traced(job[c].at)
      BY <3>1, AtWork
    <3>3. HandOK(c) /\ job[c].at # NoRecording
      BY <3>1 DEF TracedAll, Sound, Inv, HandOK
    <3>4. recording[job[c].at].state = "pending"
      BY <3>1, <3>3 DEF HandOK
    <3>5. told[job[c].at] = 0
      BY <3>2, <3>4 DEF RowOK
    <3>6. /\ update(job[c].at,
                    retryLater(recording[job[c].at], recording[job[c].at], job[c].disk))
          /\ Stepped(c, job[c].at)
      BY <2>1 DEF RetryLater
    <3> QED
      BY <1>0, <2>1, <3>2, <3>4, <3>5, <3>6
  <2>2. CASE FinalizeRefused(c) \/ FinalizeLost(c)
    <3>1. job[c].pc \in Closing /\ job[c].pc \notin {"idle", "insert", "next"}
      BY <2>2 DEF FinalizeRefused, FinalizeLost, At, Closing
    <3>2. /\ rec(c).attempts = recording[job[c].at].attempts
          /\ recording[job[c].at].state = "finalizing"
      BY <3>1, AtWork DEF TracedAll, InHandTraced, Sound, Inv, HandOK
    <3>3. /\ update(job[c].at, retryLater(recording[job[c].at], rec(c), FALSE))
          /\ Stepped(c, job[c].at)
      BY <2>2 DEF FinalizeRefused, FinalizeLost
    <3> QED
      BY <2>2, <3>1, <3>2, <3>3, AtWork
  <2> QED
    BY <2>1, <2>2
<1>2. PICK row : row = retryLater(recording[r], read, disk)
  OBVIOUS
<1>3. read.attempts < DISK_MAX_ATTEMPTS
  BY <1>1 DEF RowOK
<1>4. row \in Row /\ row.vod = recording[r].vod
  BY <1>1, <1>2, <1>3, RetryType
<1>5. /\ row.attempts = recording[r].attempts + 1
      /\ \/ row.state = "failed" /\ recording[r].attempts + 1 >= MAX_ATTEMPTS
         \/ /\ row.state = recording[r].state /\ recording[r].attempts + 1 < DISK_MAX_ATTEMPTS
            /\ ~disk => recording[r].attempts + 1 < MAX_ATTEMPTS
  BY <1>1, <1>2, Retried
<1>6. update(r, row) /\ UNCHANGED <<request, over, told>> /\ Stepped(c, r)
  BY <1>1, <1>2 DEF RetryLater, FinalizeRefused, FinalizeLost
<1>7. InHandTraced(c)'
  BY <1>6, SteppedHand
<1>8. CASE vod' = vod
  <2>1. Lifecycle!Move(r)
    BY <1>1, <1>4, <1>5, <1>6, <1>8, RowChanged DEF Lifecycle!Move, Lifecycle!Retry, Lifecycle!GiveUp,
       Lifecycle!Failed, Lifecycle!Becomes, Lifecycle!Unseen, Lifecycle!SameFilm
  <2> QED
    BY <1>4, <1>6, <1>7, <1>8, <2>1, RowChanged
<1>9. CASE FinalizeLost(c)
  <2>1. PICK v \in Vod : v = recording[r].vod /\ vod[v].of = r /\ vod[v].state = "ingesting"
                         /\ Become(v, "finalized") /\ over[r] /\ recording[r].state = "finalizing"
                         /\ told[r] > 0 /\ ~disk
    BY <1>1, <1>9 DEF FinalizeLost, RetryLater, At, TracedAll, Sound, Inv, HandOK, Closing, RowOK, Traced
  <2>2. vod'[v].state = "finalized" /\ \A u \in Vod \ {v} : vod'[u] = vod[u]
    BY <1>0, <2>1 DEF Become, VodRow
  <2>3. recording'[r] = row /\ \A s \in Recording \ {r} : recording'[s] = recording[s]
    BY <1>0, <1>6 DEF update
  <2>4. filmOf(r)' = filmOf(r) /\ footageOf(r) = "ingesting" /\ footageOf(r)' = "finalized"
    BY <1>4, <1>6, <2>1, <2>2, <2>3 DEF filmOf, footageOf
  <2>5. Lifecycle!Develops(r)
    BY <1>6, <2>1, <2>4 DEF Lifecycle!Develops, Lifecycle!SameFilm
  <2>6. Lifecycle!Move(r)
    BY <1>5, <2>1, <2>3, <2>5 DEF Lifecycle!Move, Lifecycle!Retry, Lifecycle!GiveUp,
       Lifecycle!Failed, Lifecycle!Becomes
  <2>7. ASSUME NEW s \in Recording, s # r
        PROVE  Lifecycle!Move(s)
    BY <1>6, <2>1, <2>2, <2>3, <2>7, OthersSame, SameStays
  <2> QED
    BY <1>7, <2>6, <2>7
<1> QED
  BY <1>1, <1>8, <1>9 DEF RetryLater, FinalizeRefused

LEMMA WorldMoves ==
  ASSUME NEW c \in Coordinator, Coordinator = {c}, TracedAll(c),
         \/ LeaseLapses \/ \E r \in Recording : Wait(r) \/ SessionEnds(r)
         \/ \E v \in Vod : SourceEnds(v)
         \/ UNCHANGED vars
  PROVE  (\A s \in Recording : Lifecycle!Move(s)) /\ InHandTraced(c)'
<1>0. /\ recording \in [Recording -> Row] /\ vod \in [Vod -> VodRow]
      /\ over \in [Recording -> BOOLEAN] /\ job[c].at \in Recording \cup {NoRecording}
  BY DEF TracedAll, Sound, TypeOK, Job
<1>1. CASE LeaseLapses \/ UNCHANGED vars
  <2>1. UNCHANGED <<request, over, recording, told, vod, job>>
    BY <1>1 DEF LeaseLapses, vars
  <2> QED
    BY <2>1, UnseenSteps DEF TracedAll, InHandTraced, rec
<1>2. ASSUME NEW r \in Recording, Wait(r)
      PROVE  (\A s \in Recording : Lifecycle!Move(s)) /\ InHandTraced(c)'
  <2>1. UNCHANGED <<request, over, told, vod, job>>
    BY <1>2 DEF Wait
  <2>2. \A s \in Recording : /\ recording'[s].state = recording[s].state
                            /\ recording'[s].attempts = recording[s].attempts
                            /\ recording'[s].vod = recording[s].vod
    BY <1>0, <1>2 DEF Wait, Row
  <2>3. ASSUME NEW s \in Recording
        PROVE  Lifecycle!Move(s)
    <3>1. Same(s)
      BY <2>1, <2>2 DEF Same, filmOf, footageOf
    <3> QED
      BY <3>1, SameStays
  <2>4. InHandTraced(c)'
    <3>1. job[c].pc \in Closing => job[c].at \in Recording
      BY <1>0 DEF TracedAll, Sound, Inv, HandOK, Closing
    <3> QED
      BY <2>1, <2>2, <3>1, InHandKept
  <2> QED
    BY <2>3, <2>4
<1>3. ASSUME NEW r \in Recording, SessionEnds(r)
      PROVE  (\A s \in Recording : Lifecycle!Move(s)) /\ InHandTraced(c)'
  <2>1. UNCHANGED <<request, recording, told, vod, job>>
    BY <1>3 DEF SessionEnds
  <2>2. ~over[r] /\ over'[r] /\ \A s \in Recording \ {r} : over'[s] = over[s]
    BY <1>0, <1>3 DEF SessionEnds
  <2>3. ASSUME NEW s \in Recording
        PROVE  filmOf(s)' = filmOf(s) /\ footageOf(s)' = footageOf(s)
    BY <2>1 DEF filmOf, footageOf
  <2>4. Lifecycle!Move(r)
    BY <2>1, <2>2, <2>3 DEF Lifecycle!Move, Lifecycle!SessionEnds, Lifecycle!Becomes,
       Lifecycle!SameFilm
  <2>5. ASSUME NEW s \in Recording, s # r
        PROVE  Lifecycle!Move(s)
    BY <2>1, <2>2, <2>3, <2>5, SameStays DEF Same
  <2>6. InHandTraced(c)'
    BY <2>1, <2>2, InHandKept
  <2> QED
    BY <2>4, <2>5, <2>6
<1>4. ASSUME NEW v \in Vod, SourceEnds(v)
      PROVE  (\A s \in Recording : Lifecycle!Move(s)) /\ InHandTraced(c)'
  <2>1. /\ vod[v].state = "ingesting" /\ over[vod[v].of] /\ Become(v, "finalized")
        /\ UNCHANGED <<request, over, recording, told, job>>
    BY <1>4 DEF SourceEnds, media
  <2>2. vod'[v].state = "finalized" /\ \A u \in Vod \ {v} : vod'[u] = vod[u]
    BY <1>0, <2>1 DEF Become, VodRow
  <2>3. ASSUME NEW s \in Recording
        PROVE  Lifecycle!Move(s)
    <3>1. CASE filmOf(s) = v
      <4>1. RowOK(s) /\ told[s] \in Nat
        BY DEF TracedAll, Sound, Inv, TypeOK
      <4>2. vod[v].of = s
        BY <3>1, <4>1 DEF filmOf, RowOK, Vod, NoVod
      <4>3. filmOf(s)' = filmOf(s) /\ footageOf(s) = "ingesting" /\ footageOf(s)' = "finalized"
        BY <2>1, <2>2, <3>1 DEF filmOf, footageOf
      <4>4. Lifecycle!Develops(s)
        BY <2>1, <4>2, <4>3 DEF Lifecycle!Develops, Lifecycle!SameFilm
      <4> QED
        BY <2>1, <4>4 DEF Lifecycle!Move, Lifecycle!Develop, Lifecycle!Becomes
    <3>2. CASE filmOf(s) # v
      <4>1. Same(s)
        BY <2>1, <2>2, <3>2 DEF Same, filmOf, footageOf
      <4> QED
        BY <4>1, SameStays
    <3> QED
      BY <3>1, <3>2
  <2>4. InHandTraced(c)'
    BY <2>1 DEF TracedAll, InHandTraced, rec
  <2> QED
    BY <2>3, <2>4
<1> QED
  BY <1>1, <1>2, <1>3, <1>4

LEMMA TracedStep ==
  ASSUME NEW c \in Coordinator, Coordinator = {c}, TracedAll(c), [Next]_vars
  PROVE  TracedAll(c)' /\ Lifecycle!Next
<1>1. (\A s \in Recording : Lifecycle!Move(s)) /\ InHandTraced(c)'
  <2>1. CASE Work(c)
    BY <2>1, TickMoves, InsertMoves, BranchMoves, AskMoves, StartFinalizingMoves, GoMoves,
       VodMoves, CreateMoves, NameMoves, RecordMoves, RetryMoves, SettleMoves
       DEF Work, Branch, AskMedia, CloseMedia
  <2>2. CASE Trouble(c)
    BY <2>2, TickMoves, GoMoves, VodMoves, CreateMoves, RetryMoves DEF Trouble
  <2>3. CASE \/ LeaseLapses \/ \E r \in Recording : Wait(r) \/ SessionEnds(r)
             \/ \E v \in Vod : SourceEnds(v)
             \/ UNCHANGED vars
    BY <2>3, WorldMoves
  <2> QED
    BY <2>1, <2>2, <2>3, StepsOfOne
<1>2. Sound(c)'
  BY SoundStep DEF TracedAll
<1>3. \A s \in Recording : Traced(s)'
  <2>1. recording \in [Recording -> Row] /\ told \in [Recording -> Nat]
        /\ over \in [Recording -> BOOLEAN] /\ NoVod \notin Vod
    BY DEF TracedAll, Sound, TypeOK, Vod, NoVod
  <2> QED
    BY <1>1, <2>1, MoveTraces DEF TracedAll
<1>4. request' = request
  <2>1. CASE Work(c) \/ Trouble(c)
    BY <2>1 DEF Work, Trouble, Branch, AskMedia, CloseMedia, StartTick, ReadDue, EndTick, Insert,
       RejectJsmpeg, Cancel, NotReady, Ask, Resume, StartFinalizing, Picked, CreateVod, NameVod,
       StartIngest, OpenEgress, Refused, Record, DropVod, Unname, RetryLater, StopIngest, Finalize,
       FinalizedAlready, FinalizeRefused, DiscardClips, Settle, CreateLost, NameFails, IngestLost,
       DropFails, FinalizeLost, DiscardFails, Crash, media
  <2>2. CASE \/ LeaseLapses \/ \E r \in Recording : Wait(r) \/ SessionEnds(r)
             \/ \E v \in Vod : SourceEnds(v)
             \/ UNCHANGED vars
    BY <2>2 DEF LeaseLapses, Wait, SessionEnds, SourceEnds, media, vars
  <2> QED
    BY <2>1, <2>2, StepsOfOne
<1> QED
  BY <1>1, <1>2, <1>3, <1>4 DEF TracedAll, Lifecycle!Next

\* With one coordinator, Recordings implements RecordingLifecycle: through crashes,
\* lost answers and refusals a request walks its states, is announced once and
\* with a film of its own, and fails after its attempts, neither before nor later.
THEOREM LifecycleSpecHolds ==
  ASSUME NEW c \in Coordinator, Coordinator = {c}
  PROVE  Spec => LifecycleSpec
<1>1. Init => TracedAll(c) /\ Lifecycle!Init
  <2> SUFFICES ASSUME Init PROVE TracedAll(c) /\ Lifecycle!Init
    OBVIOUS
  <2>1. \A r \in Recording : recording[r] = NoRow /\ told[r] = 0
    BY DEF Init
  <2>2. TracedAll(c)
    <3>1. \A r \in Recording : Traced(r)
      BY <2>1 DEF Traced, NoRow
    <3>2. job[c] = Idle
      BY DEF Init
    <3>3. InHandTraced(c)
      BY <3>2 DEF InHandTraced, Idle, NoRow, Asking, Closing
    <3> QED
      BY <3>1, <3>3, SoundInit DEF TracedAll
  <2>3. \A r \in Recording : filmOf(r) = NoVod /\ footageOf(r) = "none"
    BY <2>1 DEF filmOf, footageOf, Vod, NoVod
  <2>4. \A r \in Recording : recording[r].state = "none" /\ recording[r].attempts = 0
    BY <2>1 DEF NoRow
  <2> QED
    BY <2>2, <2>3, <2>4 DEF Init, Request, Lifecycle!Init
<1>2. TracedAll(c) /\ [Next]_vars => TracedAll(c)' /\ [Lifecycle!Next]_Lifecycle!lifecycle
  BY TracedStep
<1> QED
  BY <1>1, <1>2, PTL DEF Spec, LifecycleSpec, Lifecycle!Spec
=============================================================================
