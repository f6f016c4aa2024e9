----------------------------- MODULE OutputStore -----------------------------
(***************************************************************************)
(* The tables restreaming works on: `outputs` and what it needs of         *)
(* `destinations`, `ingest_sessions` and `workers`.  Each operator is one  *)
(* statement or one serializable transaction of server/store/outputs.js,   *)
(* sessions.js or workers.js; the processes that call them are in the      *)
(* modules that extend this one.                                           *)
(*                                                                         *)
(* An output is a pair of a session and a destination: it has at most one  *)
(* row (UNIQUE), and is given to at most one worker at a time.             *)
(***************************************************************************)
EXTENDS Integers, FiniteSets

CONSTANTS Output,      \* pairs of a session and a destination, all different
          MaxWorkers   \* bound: restream generations ever started

ASSUME OutputAssumption == MaxWorkers \in Nat

Worker == 1..MaxWorkers   \* by generation
NoWorker == 0

VARIABLES session,   \* Output -> its session: "over" is ending or closed
          dest,      \* Output -> its destination: who may start the output
          output,    \* the outputs table
          worker     \* the workers table, kind restream

tables == <<session, dest, output, worker>>

\* "auto": enabled, with a key, auto_start and not cooling down.  Any other is
\* "manual": its owner may start it, or is refused, which is no step.
DestState == {"auto", "manual", "deleted"}
SessionState == {"idle", "live", "over"}
ALIVE == {"ready", "draining"}
Given == {"stopped", "lost"}
\* No statement tells starting, live and error apart ("running"), nor failed and
\* stopped ("ended").
OPEN == {"pending", "running"}
Report == {"running", "ended"}

Row == [state : {"none", "pending"} \cup Report, desired : {"run", "stop"},
        worker : Worker \cup {NoWorker}]
NoRow == [state |-> "none", desired |-> "stop", worker |-> NoWorker]

StoreTypeOK ==
  /\ session \in [Output -> SessionState]
  /\ dest \in [Output -> DestState]
  /\ output \in [Output -> Row]
  /\ worker \in [Worker -> {"none"} \cup ALIVE \cup Given]

StoreInit ==
  /\ session = [o \in Output |-> "idle"]
  /\ dest \in [Output -> {"auto", "manual"}]
  /\ output = [o \in Output |-> NoRow]
  /\ worker = [w \in Worker |-> "none"]

Exists(o) == output[o].state # "none"
Open(o) == output[o].state \in OPEN
Assigned(o) == output[o].worker # NoWorker
Alive(w) == worker[w] \in ALIVE

\* insertOut
newRow == [state |-> "pending", desired |-> "run", worker |-> NoWorker]

Update(o, row) == output' = [output EXCEPT ![o] = row]
AskToStop(row) == [row EXCEPT !.desired = "stop"]

-----------------------------------------------------------------------------
(* The coordinator's statements                                            *)

wantsAuto(o) == session[o] = "live" /\ dest[o] = "auto" /\ ~Exists(o)
pendingUnassigned ==
  {o \in Output : /\ output[o].desired = "run" /\ output[o].state = "pending"
                  /\ ~Assigned(o) /\ session[o] = "live"}

\* assign: whatever is desired by now, if nobody has it.
assign(o, w) ==
  output' = IF output[o].state = "pending" /\ ~Assigned(o)
            THEN [output EXCEPT ![o].worker = w] ELSE output

\* Mutant of release: what was asked to stop is to run again at the next worker.
releaseAll(w) ==
  output' = [o \in Output |-> IF output[o].worker = w /\ Open(o) THEN newRow ELSE output[o]]
\* release: what the worker was to run goes back to be assigned again.
release(w) ==
  output' = [o \in Output |->
    IF output[o].worker = w /\ Open(o) /\ output[o].desired = "run" THEN newRow
    ELSE output[o]]

\* Mutant of stopOrphans: outputs of workers that are gone are left to them.
stopOrphansUnassigned ==
  output' = [o \in Output |->
    IF Open(o) /\ output[o].desired = "stop" /\ ~Assigned(o)
    THEN [output[o] EXCEPT !.state = "ended"] ELSE output[o]]
stopOrphans ==
  output' = [o \in Output |->
    IF Open(o) /\ output[o].desired = "stop" /\ (Assigned(o) => worker[output[o].worker] \in Given)
    THEN [output[o] EXCEPT !.state = "ended"] ELSE output[o]]

-----------------------------------------------------------------------------
(* The worker's statements                                                 *)

forWorker(w) == {o \in Output : output[o].worker = w /\ Open(o)}

\* Only what has not started goes back; whose it is by now is not asked.
unassign(o) ==
  output' = IF output[o].state = "pending" THEN [output EXCEPT ![o].worker = NoWorker] ELSE output

\* Mutant of report: it lands whoever the output belongs to by now.
reportAnyway(o, to, w) ==
  output' = IF Exists(o) THEN [output EXCEPT ![o].state = to] ELSE output
report(o, to, w) ==
  output' = IF Exists(o) /\ output[o].worker = w THEN [output EXCEPT ![o].state = to] ELSE output

-----------------------------------------------------------------------------
(* Owners and sessions                                                     *)

startable(o) == dest[o] # "deleted" /\ session[o] = "live"

\* The transaction of startDestination: an open output is wanted again, one
\* that ended starts over, and there is none of a deleted destination.
startRow(o) ==
  Update(o, IF Open(o) THEN [output[o] EXCEPT !.desired = "run"]
            ELSE IF dest[o] = "deleted" THEN NoRow
            ELSE newRow)

stopOpen(o) == Update(o, IF Open(o) THEN AskToStop(output[o]) ELSE output[o])
stopPending(o) ==
  Update(o, IF output[o] = [newRow EXCEPT !.desired = "stop"]
            THEN [output[o] EXCEPT !.state = "ended"] ELSE output[o])

\* deleteDestination of an output nobody has; its row goes with it (CASCADE).
deleteRow(o) == Update(o, NoRow) /\ dest' = [dest EXCEPT ![o] = "deleted"]

\* Sessions go live and end in IngestSystem; a session that is ending or closed
\* asks its outputs to stop in the same transaction.
sessionOver(o) ==
  /\ session' = [session EXCEPT ![o] = "over"]
  /\ Update(o, AskToStop(output[o]))

=============================================================================
