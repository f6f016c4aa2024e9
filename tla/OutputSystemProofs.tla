-------------------------- MODULE OutputSystemProofs --------------------------
(***************************************************************************)
(* Proofs about OutputSystem, for any number of outputs, workers, requests *)
(* and troubles: every variable stays well formed, an output that runs is  *)
(* somebody's, and every step is a step of OutputLifecycle.                *)
(***************************************************************************)
EXTENDS OutputSystem, TLAPS

USE OutputAssumption, RestreamAssumption, RequestAssumption DEF Worker, NoWorker

-----------------------------------------------------------------------------
(* The statements on the outputs table                                     *)

\* What holds of the rows of the table.
Rows(table) ==
  /\ table \in [Output -> Row]
  /\ \A o \in Output : table[o].state = "running" => table[o].worker \in Worker

\* RunIsOwned speaks of the rows alone.
LEMMA RowsAre == ASSUME output \in [Output -> Row] PROVE Rows(output) <=> RunIsOwned
  BY DEF Rows, RunIsOwned, Assigned, Row

\* The rows insertOut and an empty table put there.
LEMMA FreshRows == newRow \in Row /\ NoRow \in Row /\ newRow.state = "pending" /\ NoRow.state = "none"
  BY DEF newRow, NoRow, Row, Report

LEMMA UpdateKeeps ==
  ASSUME Rows(output), NEW o \in Output, NEW row \in Row,
         row.state = "running" => row.worker \in Worker, Update(o, row)
  PROVE  Rows(output')
  BY DEF Rows, Update

\* Each statement of outputs.js keeps the rows well formed and owned.
LEMMA AssignKeeps ==
  ASSUME Rows(output), NEW o \in Output, NEW w \in Worker \cup {NoWorker}, assign(o, w)
  PROVE  Rows(output')
  BY DEF Rows, assign, Row

LEMMA ReleaseKeeps == ASSUME Rows(output), NEW w, release(w) PROVE Rows(output')
  BY FreshRows DEF Rows, release

LEMMA StopOrphansKeeps == ASSUME Rows(output), stopOrphans PROVE Rows(output')
  BY DEF Rows, stopOrphans, Row, Report

LEMMA UnassignKeeps == ASSUME Rows(output), NEW o \in Output, unassign(o) PROVE Rows(output')
  BY DEF Rows, unassign, Row

\* This is where the worker in the WHERE clause is needed.
LEMMA ReportKeeps ==
  ASSUME Rows(output), NEW o \in Output, NEW to \in Report, NEW w \in Worker, report(o, to, w)
  PROVE  Rows(output')
  BY DEF Rows, report, Row, Report

LEMMA StartKeeps == ASSUME Rows(output), NEW o \in Output, startRow(o) PROVE Rows(output')
<1>1. CASE Open(o)
  BY <1>1 DEF startRow, Update, Rows, Row
<1>2. CASE ~Open(o)
  BY <1>2, FreshRows DEF startRow, Update, Rows
<1> QED BY <1>1, <1>2

LEMMA AskKeeps ==
  ASSUME Rows(output), NEW o \in Output, Update(o, AskToStop(output[o]))
  PROVE  Rows(output')
  BY DEF Update, AskToStop, Rows, Row

LEMMA StopOpenKeeps == ASSUME Rows(output), NEW o \in Output, stopOpen(o) PROVE Rows(output')
  BY DEF stopOpen, Update, AskToStop, Rows, Row

LEMMA StopPendingKeeps == ASSUME Rows(output), NEW o \in Output, stopPending(o) PROVE Rows(output')
  BY DEF stopPending, Update, Rows, Row, Report

-----------------------------------------------------------------------------
(* Steps                                                                   *)

\* The places of the tick, the polls and the reports, in the shape the steps use.
LEMMA Shapes ==
  /\ Idle \in Place /\ NoPoll \in Poll /\ Gone \in Process /\ NoRunners \in [Output -> {"none", "going", "ended"}]
  /\ \A step \in {"lose", "release", "auto", "assign"}, w \in Worker \cup {NoWorker}, todo \in SUBSET Output :
       [step |-> step, of |-> w, todo |-> todo] \in Place
  BY DEF Idle, Place, NoPoll, Poll, Gone, Process, NoRunners

LEMMA ToldType ==
  ASSUME RestreamTypeOK, NEW w \in Worker, NEW outs \in SUBSET Output, NEW to \in Report
  PROVE  Told(w, outs, to) \subseteq [by : Worker, of : Output, to : Report]
  BY DEF RestreamTypeOK, Told

\* One field of a process or a poll changes.
LEMMA ProcessFields ==
  ASSUME NEW p \in Process
  PROVE  /\ \A pc \in {"none", "up", "stopping", "releasing", "gone"} : [p EXCEPT !.pc = pc] \in Process
         /\ \A handed \in {"no", "releasing", "done"} : [p EXCEPT !.handed = handed] \in Process
         /\ \A pc \in {"none", "up", "stopping", "releasing", "gone"}, draining \in BOOLEAN :
              [p EXCEPT !.draining = draining, !.pc = pc] \in Process
         /\ p.pc \in {"none", "up", "stopping", "releasing", "gone"}
  BY DEF Process

LEMMA PollFields ==
  ASSUME NEW p \in Poll
  PROVE  /\ \A o \in Output \cup {NoOutput} : [p EXCEPT !.preparing = o] \in Poll
         /\ \A todo \in SUBSET Output, run \in SUBSET Output :
              [p EXCEPT !.todo = todo, !.run = run] \in Poll
         /\ \A o \in Output :
              [p EXCEPT !.todo = @ \ {o}, !.run = @ \ {o}, !.seen = @ \cup {o}] \in Poll
         /\ p.todo \in SUBSET Output /\ p.run \in SUBSET Output
  BY DEF Poll

\* Everything but the outputs table.
Rest ==
  /\ session \in [Output -> SessionState]
  /\ dest \in [Output -> DestState]
  /\ worker \in [Worker -> {"none"} \cup ALIVE \cup Given]
  /\ RestreamTypeOK
  /\ tick \in Place
  /\ request \in [Output -> {"none", "start", "stop"}]
  /\ requests \in 0..MaxRequests

LEMMA RestStep == ASSUME Rest, [Next]_vars PROVE Rest'
<1> USE DEF Rest, RestreamTypeOK, tables, restream, coordination, Calm, Trouble
<1>1. CASE ReleaseLost
  BY <1>1, Shapes DEF ReleaseLost
<1>2. CASE ReadAuto
  BY <1>2, Shapes DEF ReadAuto, Move
<1>3. CASE \E o \in Output : InsertAuto(o)
  BY <1>3, Shapes DEF InsertAuto, Move, At, Place
<1>4. CASE ReadPending
  <2>1. tick' \in Place
    <3>1. newestReady \subseteq Worker /\ pendingUnassigned \in SUBSET Output
      BY DEF newestReady, pendingUnassigned
    <3> QED BY <1>4, <3>1, Shapes DEF ReadPending, Move
  <2> QED BY <1>4, <2>1 DEF ReadPending
<1>5. CASE \E o \in Output : Assign(o)
  BY <1>5, Shapes DEF Assign, Move, At, Place
<1>6. CASE StopOrphans
  BY <1>6, Shapes DEF StopOrphans
<1>7. CASE TickFails
  BY <1>7, Shapes DEF TickFails
<1>8. CASE \E w \in Worker : Lose(w)
  BY <1>8, Shapes DEF Lose, Move, Given
<1>9. CASE \E w \in Worker : Drain(w)
  BY <1>9 DEF Drain, ALIVE
<1>10. CASE \E w \in Worker : Start(w)
  <2> PICK w \in Worker : Start(w)
    BY <1>10
  <2>1. process' = [process EXCEPT ![w] = [@ EXCEPT !.pc = "up"]]
    BY DEF Start
  <2>2. process' \in [Worker -> Process]
    BY <2>1, ProcessFields
  <2> QED BY <2>2 DEF Start, ALIVE
<1>11. CASE \E w \in Worker : BeatLost(w)
  BY <1>11, Shapes DEF BeatLost, Vanish
<1>12. CASE \E w \in Worker : BeatDraining(w)
  <2> PICK w \in Worker : BeatDraining(w)
    BY <1>12
  <2>1. Leaving(w, runners(w)) \in {"none", "up", "stopping", "releasing", "gone"}
    BY ProcessFields DEF Leaving
  <2>2. process' = [process EXCEPT ![w] = [@ EXCEPT !.draining = TRUE, !.pc = Leaving(w, runners(w))]]
    BY DEF BeatDraining
  <2>3. process' \in [Worker -> Process]
    BY <2>1, <2>2, ProcessFields
  <2> QED BY <2>3 DEF BeatDraining
<1>13. CASE \E w \in Worker : Deadline(w)
  <2> PICK w \in Worker : Deadline(w)
    BY <1>13
  <2>1. process' = [process EXCEPT ![w] = [@ EXCEPT !.handed = "releasing"]]
    BY DEF Deadline, HandOver
  <2>2. process' \in [Worker -> Process]
    BY <2>1, ProcessFields
  <2> QED BY <2>2, Shapes DEF Deadline, HandOver
<1>14. CASE \E w \in Worker : HandOverRelease(w)
  <2> PICK w \in Worker : HandOverRelease(w)
    BY <1>14
  <2>1. process' = [process EXCEPT ![w] = [@ EXCEPT !.handed = "done"]]
    BY DEF HandOverRelease
  <2>2. process' \in [Worker -> Process]
    BY <2>1, ProcessFields
  <2> QED BY <2>2 DEF HandOverRelease
<1>15. CASE \E w \in Worker : WriteStop(w)
  <2> PICK w \in Worker : WriteStop(w)
    BY <1>15
  <2>1. process' = [process EXCEPT ![w] = [@ EXCEPT !.pc = "releasing"]]
    BY DEF WriteStop
  <2>2. process' \in [Worker -> Process]
    BY <2>1, ProcessFields
  <2>3. worker' \in [Worker -> {"none"} \cup ALIVE \cup Given]
    BY DEF WriteStop, Given
  <2>4. trouble' \in 0..MaxTrouble
    BY DEF WriteStop
  <2> QED BY <2>2, <2>3, <2>4 DEF WriteStop
<1>16. CASE \E w \in Worker : ReleaseAndGo(w)
  BY <1>16, Shapes DEF ReleaseAndGo, Vanish
<1>17. CASE \E w \in Worker : Crash(w)
  BY <1>17, Shapes DEF Crash, Vanish
<1>18. CASE \E w \in Worker : PollRead(w)
  BY <1>18, Shapes DEF PollRead, Poll, forWorker
<1>19. CASE \E w \in Worker : PollEnd(w)
  <2> PICK w \in Worker : PollEnd(w)
    BY <1>19
  <2> DEFINE kept == Going(w) \cap poll[w].seen
             pc == IF process[w].draining THEN Leaving(w, kept) ELSE process[w].pc
  <2>1. pc \in {"none", "up", "stopping", "releasing", "gone"}
    BY ProcessFields DEF Leaving
  <2>2. process' = [process EXCEPT ![w] = [@ EXCEPT !.pc = pc]]
    BY DEF PollEnd
  <2>3. process' \in [Worker -> Process]
    BY <2>1, <2>2, ProcessFields
  <2>4. Going(w) \ kept \in SUBSET Output /\ "ended" \in Report
    BY DEF Going, Report
  <2>5. reports' \subseteq [by : Worker, of : Output, to : Report]
    BY <2>4, ToldType DEF PollEnd
  <2>6. runner' \in [Worker -> [Output -> {"none", "going", "ended"}]]
    BY DEF PollEnd
  <2> QED BY <2>3, <2>5, <2>6, Shapes DEF PollEnd
<1>20. CASE \E w \in Worker, o \in Output : PollStop(w, o)
  <2> PICK w \in Worker, o \in Output : PollStop(w, o)
    BY <1>20
  <2>1. Next1(w, o) \in Poll
    BY PollFields DEF Next1
  <2>2. {o} \cap Going(w) \in SUBSET Output /\ "ended" \in Report
    BY DEF Report
  <2>3. reports' \subseteq [by : Worker, of : Output, to : Report]
    BY <2>2, ToldType DEF PollStop
  <2>4. poll' \in [Worker -> Poll]
    BY <2>1 DEF PollStop
  <2> QED BY <2>3, <2>4 DEF PollStop
<1>21. CASE \E w \in Worker, o \in Output : PollKeep(w, o)
  <2> PICK w \in Worker, o \in Output : PollKeep(w, o)
    BY <1>21
  <2>1. Next1(w, o) \in Poll
    BY PollFields DEF Next1
  <2>2. poll' \in [Worker -> Poll]
    BY <2>1 DEF PollKeep
  <2>3. runner' \in [Worker -> [Output -> {"none", "going", "ended"}]]
    BY DEF PollKeep
  <2> QED BY <2>2, <2>3 DEF PollKeep
<1>22. CASE \E w \in Worker, o \in Output : PollUnassign(w, o)
  <2> PICK w \in Worker, o \in Output : PollUnassign(w, o)
    BY <1>22
  <2>1. poll' = [poll EXCEPT ![w] = [@ EXCEPT !.todo = poll[w].todo \ {o}, !.run = poll[w].run \ {o}]]
    BY DEF PollUnassign
  <2>2. poll[w].todo \ {o} \in SUBSET Output /\ poll[w].run \ {o} \in SUBSET Output
    BY PollFields
  <2>3. poll' \in [Worker -> Poll]
    BY <2>1, <2>2, PollFields
  <2> QED BY <2>3 DEF PollUnassign
<1>23. CASE \E w \in Worker, o \in Output : PollPrepare(w, o)
  <2> PICK w \in Worker, o \in Output : PollPrepare(w, o)
    BY <1>23
  <2>1. Next1(w, o) \in Poll
    BY PollFields DEF Next1
  <2>2. poll' \in [Worker -> Poll]
    BY <2>1, PollFields DEF PollPrepare
  <2> QED BY <2>2 DEF PollPrepare
<1>24. CASE \E w \in Worker, o \in Output : PollPrepared(w, o)
  <2> PICK w \in Worker, o \in Output : PollPrepared(w, o)
    BY <1>24
  <2>1. poll' = [poll EXCEPT ![w] = [@ EXCEPT !.preparing = NoOutput]]
    BY DEF PollPrepared
  <2>2. poll' \in [Worker -> Poll]
    BY <2>1, PollFields
  <2>3. \/ UNCHANGED runner
        \/ runner' = [runner EXCEPT ![w] = [@ EXCEPT ![o] = "going"]]
    BY DEF PollPrepared
  <2>4. [runner[w] EXCEPT ![o] = "going"] \in [Output -> {"none", "going", "ended"}]
    OBVIOUS
  <2>5. runner' \in [Worker -> [Output -> {"none", "going", "ended"}]]
    BY <2>3, <2>4
  <2> QED BY <2>2, <2>5 DEF PollPrepared
<1>25. CASE \E w \in Worker : PollFails(w)
  BY <1>25, Shapes DEF PollFails
<1>26. CASE \E w \in Worker, o \in Output : RunnerReports(w, o)
  BY <1>26, ToldType DEF RunnerReports, Report, Going
<1>27. CASE \E w \in Worker, o \in Output : RunnerEnds(w, o)
  <2> PICK w \in Worker, o \in Output : RunnerEnds(w, o)
    BY <1>27
  <2>1. reports' \subseteq [by : Worker, of : Output, to : Report]
    <3>1. {o} \in SUBSET Output /\ "ended" \in Report
      BY DEF Report
    <3> QED BY <3>1, ToldType DEF RunnerEnds
  <2>2. runner' \in [Worker -> [Output -> {"none", "going", "ended"}]]
    BY DEF RunnerEnds
  <2> QED BY <2>1, <2>2 DEF RunnerEnds
<1>28. CASE \E r \in reports : Commit(r)
  BY <1>28 DEF Commit
<1>29. CASE \E o \in Output : StartCommits(o)
  BY <1>29 DEF StartCommits, Ask
<1>30. CASE \E o \in Output : StopPending(o)
  BY <1>30 DEF StopPending, Ask
<1>31. CASE \E o \in Output : StartRequest(o)
  BY <1>31 DEF StartRequest, Ask, NewRequest
<1>32. CASE \E o \in Output : StopRequest(o)
  BY <1>32 DEF StopRequest, Ask, NewRequest
<1>33. CASE \E o \in Output : Delete(o)
  BY <1>33 DEF Delete, NewRequest, DestState, deleteRow
<1>34. CASE \E o \in Output : Change(o)
  <2>1. PICK o \in Output, d \in DestState : dest' = [dest EXCEPT ![o] = d]
    BY <1>34 DEF Change
  <2> QED BY <1>34, <2>1 DEF Change
<1>35. CASE \E o \in Output : SessionLive(o)
  BY <1>35 DEF SessionLive, SessionState
<1>36. CASE \E o \in Output : SessionOver(o)
  BY <1>36 DEF SessionOver, SessionState, sessionOver
<1>37. CASE UNCHANGED vars
  BY <1>37 DEF vars
<1> QED
  BY <1>1, <1>2, <1>3, <1>4, <1>5, <1>6, <1>7, <1>8, <1>9, <1>10, <1>11, <1>12, <1>13, <1>14, <1>15, <1>16, <1>17, <1>18, <1>19, <1>20, <1>21, <1>22, <1>23, <1>24, <1>25, <1>26, <1>27, <1>28, <1>29, <1>30, <1>31, <1>32, <1>33, <1>34, <1>35, <1>36, <1>37
  DEF Next, Coordinator, Beat, WorkerDuty, PollStep, RequestDuty

LEMMA RowsStep == ASSUME Rest, Rows(output), [Next]_vars PROVE Rows(output')
<1> USE DEF Rest, tables, restream, coordination
<1>1. CASE ReleaseLost
  BY <1>1, ReleaseKeeps DEF ReleaseLost
<1>2. CASE \E o \in Output : InsertAuto(o)
  BY <1>2, FreshRows, UpdateKeeps DEF InsertAuto
<1>3. CASE \E o \in Output : Assign(o)
  <2> PICK o \in Output : Assign(o)
    BY <1>3
  <2> QED BY AssignKeeps DEF Assign, At, Place
<1>4. CASE StopOrphans
  BY <1>4, StopOrphansKeeps DEF StopOrphans
<1>5. CASE \E w \in Worker : HandOverRelease(w)
  BY <1>5, ReleaseKeeps DEF HandOverRelease
<1>6. CASE \E w \in Worker : ReleaseAndGo(w)
  BY <1>6, ReleaseKeeps DEF ReleaseAndGo
<1>7. CASE \E w \in Worker, o \in Output : PollStop(w, o)
  <2> PICK w \in Worker, o \in Output : PollStop(w, o)
    BY <1>7
  <2>1. CASE report(o, "ended", w)
    BY <2>1, ReportKeeps DEF Report
  <2> QED BY <2>1 DEF PollStop
<1>8. CASE \E w \in Worker, o \in Output : PollUnassign(w, o)
  BY <1>8, UnassignKeeps DEF PollUnassign
<1>9. CASE \E w \in Worker, o \in Output : PollPrepared(w, o)
  <2> PICK w \in Worker, o \in Output : PollPrepared(w, o)
    BY <1>9
  <2>1. CASE report(o, "ended", w)
    BY <2>1, ReportKeeps DEF Report
  <2> QED BY <2>1 DEF PollPrepared
<1>10. CASE \E r \in reports : Commit(r)
  <2> PICK r \in reports : Commit(r)
    BY <1>10
  <2>1. r.by \in Worker /\ r.of \in Output /\ r.to \in Report
    BY DEF RestreamTypeOK
  <2>2. CASE report(r.of, r.to, r.by)
    BY <2>1, <2>2, ReportKeeps
  <2> QED BY <2>2 DEF Commit
<1>11. CASE \E o \in Output : StartCommits(o)
  BY <1>11, StartKeeps DEF StartCommits
<1>12. CASE \E o \in Output : StopPending(o)
  BY <1>12, StopPendingKeeps DEF StopPending
<1>13. CASE \E o \in Output : StopRequest(o)
  BY <1>13, StopOpenKeeps DEF StopRequest
<1>14. CASE \E o \in Output : Delete(o)
  BY <1>14, FreshRows, UpdateKeeps DEF Delete, deleteRow
<1>15. CASE \E o \in Output : SessionOver(o)
  BY <1>15, AskKeeps DEF SessionOver, sessionOver
<1>16. CASE ReadAuto
  BY <1>16 DEF ReadAuto
<1>17. CASE ReadPending
  BY <1>17 DEF ReadPending
<1>18. CASE TickFails
  BY <1>18 DEF TickFails
<1>19. CASE \E w \in Worker : Lose(w)
  BY <1>19 DEF Lose
<1>20. CASE \E w \in Worker : Drain(w)
  BY <1>20 DEF Drain
<1>21. CASE \E w \in Worker : Start(w)
  BY <1>21 DEF Start
<1>22. CASE \E w \in Worker : BeatLost(w)
  BY <1>22 DEF BeatLost, Vanish
<1>23. CASE \E w \in Worker : BeatDraining(w)
  BY <1>23 DEF BeatDraining
<1>24. CASE \E w \in Worker : Deadline(w)
  BY <1>24 DEF Deadline, HandOver
<1>25. CASE \E w \in Worker : WriteStop(w)
  BY <1>25 DEF WriteStop
<1>26. CASE \E w \in Worker : Crash(w)
  BY <1>26 DEF Crash, Vanish
<1>27. CASE \E w \in Worker : PollRead(w)
  BY <1>27 DEF PollRead
<1>28. CASE \E w \in Worker : PollEnd(w)
  BY <1>28 DEF PollEnd
<1>29. CASE \E w \in Worker, o \in Output : PollKeep(w, o)
  BY <1>29 DEF PollKeep
<1>30. CASE \E w \in Worker, o \in Output : PollPrepare(w, o)
  BY <1>30 DEF PollPrepare
<1>31. CASE \E w \in Worker : PollFails(w)
  BY <1>31 DEF PollFails
<1>32. CASE \E w \in Worker, o \in Output : RunnerReports(w, o)
  BY <1>32 DEF RunnerReports
<1>33. CASE \E w \in Worker, o \in Output : RunnerEnds(w, o)
  BY <1>33 DEF RunnerEnds
<1>34. CASE \E o \in Output : StartRequest(o)
  BY <1>34 DEF StartRequest
<1>35. CASE \E o \in Output : Change(o)
  BY <1>35 DEF Change
<1>36. CASE \E o \in Output : SessionLive(o)
  BY <1>36 DEF SessionLive
<1>37. CASE UNCHANGED vars
  BY <1>37 DEF vars
<1> QED
  BY <1>1, <1>2, <1>3, <1>4, <1>5, <1>6, <1>7, <1>8, <1>9, <1>10, <1>11, <1>12, <1>13, <1>14, <1>15, <1>16, <1>17, <1>18, <1>19, <1>20, <1>21, <1>22, <1>23, <1>24, <1>25, <1>26, <1>27, <1>28, <1>29, <1>30, <1>31, <1>32, <1>33, <1>34, <1>35, <1>36, <1>37
  DEF Next, Coordinator, Beat, WorkerDuty, PollStep, RequestDuty

-----------------------------------------------------------------------------
(* Theorems                                                                *)

LEMMA Parts == ASSUME Rest, Rows(output) PROVE TypeOK /\ RunIsOwned
  BY RowsAre DEF Rest, Rows, TypeOK, StoreTypeOK

LEMMA Starts == ASSUME Init PROVE Rest /\ Rows(output)
  BY Shapes, FreshRows DEF Init, StoreInit, RestreamInit, Rest, RestreamTypeOK, Rows, Process,
     SessionState, DestState

LEMMA Always == Spec => [](Rest /\ Rows(output))
<1>1. Init => Rest /\ Rows(output)
  BY Starts
<1>2. Rest /\ Rows(output) /\ [Next]_vars => (Rest /\ Rows(output))'
  <2>1. SUFFICES ASSUME Rest, Rows(output), [Next]_vars PROVE Rest' /\ Rows(output')
    BY DEF Rows
  <2>2. QED BY <2>1, RestStep, RowsStep
<1> QED BY <1>1, <1>2, PTL DEF Spec

\* Every table row, process, poll, report and place stays well formed.
THEOREM OutputsTypeCorrect == Spec => []TypeOK
<1>1. Rest /\ Rows(output) => TypeOK
  BY Parts
<1> QED BY <1>1, Always, PTL

\* An output that is starting, live or in error belongs to a worker, however
\* releases, hand-overs, restarts and late reports interleave.
THEOREM RunIsOwnedHolds == Spec => []RunIsOwned
<1>1. Rest /\ Rows(output) => RunIsOwned
  BY Parts
<1> QED BY <1>1, Always, PTL

-----------------------------------------------------------------------------
(* The refinement of OutputLifecycle                                       *)

\* What a worker's step may write into the table.
Written(w) == UNCHANGED output \/ release(w) \/ \E o \in Output : unassign(o) \/ report(o, "ended", w)

LEMMA WorkerWrites ==
  ASSUME NEW w \in Worker,
         \/ Lose(w) \/ Drain(w) \/ Start(w) \/ Beat(w) \/ WorkerDuty(w) \/ Crash(w)
         \/ PollStep(w) \/ PollFails(w)
         \/ \E o \in Output : RunnerReports(w, o) \/ RunnerEnds(w, o)
  PROVE  UNCHANGED <<session, dest, request>> /\ Written(w)
<1>1. ASSUME WorkerDuty(w) PROVE UNCHANGED <<session, dest, request>> /\ (UNCHANGED output \/ release(w))
  BY <1>1 DEF WorkerDuty, Deadline, HandOver, HandOverRelease, WriteStop, ReleaseAndGo, tables, coordination
<1>2. ASSUME PollStep(w)
      PROVE  /\ UNCHANGED <<session, dest, request>>
             /\ UNCHANGED output \/ \E o \in Output : unassign(o) \/ report(o, "ended", w)
  BY <1>2 DEF PollStep, PollRead, PollEnd, PollStop, PollKeep, PollUnassign, PollPrepare,
     PollPrepared, tables, coordination
<1>3. ASSUME \/ Lose(w) \/ Drain(w) \/ Start(w) \/ Beat(w) \/ Crash(w) \/ PollFails(w)
             \/ \E o \in Output : RunnerReports(w, o) \/ RunnerEnds(w, o)
      PROVE  UNCHANGED <<session, dest, request, output>>
  BY <1>3 DEF Lose, Drain, Start, Beat, BeatLost, BeatDraining, Crash, PollFails, RunnerReports,
     RunnerEnds, tables, coordination
<1> QED
  BY <1>1, <1>2, <1>3 DEF Written

\* A row looked up for auto-start is of a session that was on air by then.
Looked == tick.step = "auto" => \A o \in tick.todo : session[o] # "idle"

LEMMA LookedStep == ASSUME Rest, Looked, [Next]_vars PROVE Looked'
<1>1. CASE tick' = tick /\ session' = session
  BY <1>1 DEF Looked
<1>2. CASE tick'.step # "auto"
  BY <1>2 DEF Looked
<1>3. CASE ReadAuto
  BY <1>3 DEF ReadAuto, Move, wantsAuto, Looked, tables
<1>4. CASE \E o \in Output : InsertAuto(o)
  BY <1>4 DEF InsertAuto, Move, At, Looked, Idle
<1>5. CASE \E o \in Output : SessionLive(o) \/ SessionOver(o)
  BY <1>5 DEF SessionLive, SessionOver, sessionOver, Looked, Rest, Place, coordination
<1>6. ASSUME NEW w \in Worker, Lose(w) \/ Drain(w) \/ Start(w) \/ Crash(w) \/ PollFails(w) \/ Beat(w)
      PROVE  (tick' = tick /\ session' = session) \/ tick'.step # "auto"
  BY <1>6 DEF Lose, Drain, Start, Crash, PollFails, Beat, BeatLost, BeatDraining, Move, tables, coordination
<1>7. ASSUME NEW w \in Worker, WorkerDuty(w)
      PROVE  tick' = tick /\ session' = session
  BY <1>7 DEF WorkerDuty, Deadline, HandOver, HandOverRelease, WriteStop, ReleaseAndGo, tables, coordination
<1>8. ASSUME NEW w \in Worker, PollStep(w)
      PROVE  tick' = tick /\ session' = session
  BY <1>8 DEF PollStep, PollRead, PollEnd, PollStop, PollKeep, PollUnassign, PollPrepare,
     PollPrepared, tables, coordination
<1>9. ASSUME \/ \E w \in Worker, o \in Output : RunnerReports(w, o) \/ RunnerEnds(w, o)
             \/ \E r \in reports : Commit(r)
             \/ \E o \in Output : RequestDuty(o) \/ StartRequest(o) \/ StopRequest(o) \/ Delete(o) \/ Change(o)
             \/ UNCHANGED vars
      PROVE  tick' = tick /\ session' = session
  BY <1>9 DEF RunnerReports, RunnerEnds, Commit, RequestDuty, StartCommits, StopPending, StartRequest,
     StopRequest, Delete, Change, tables, coordination, vars
<1>10. ASSUME ReleaseLost \/ ReadPending \/ StopOrphans \/ TickFails \/ \E o \in Output : Assign(o)
       PROVE  tick'.step # "auto"
  BY <1>10 DEF ReleaseLost, ReadPending, StopOrphans, TickFails, Assign, Idle, Move
<1> QED
  BY <1>1, <1>2, <1>3, <1>4, <1>5, <1>6, <1>7, <1>8, <1>9, <1>10 DEF Next, Coordinator

\* Nothing is left of an output whose destination was deleted.
Removed == \A o \in Output : dest[o] = "deleted" => output[o] = NoRow

LEMMA RemovedStep == ASSUME Rest, Rows(output), Removed, [Next]_vars PROVE Removed'
<1>1. SUFFICES ASSUME NEW o \in Output, dest'[o] = "deleted" PROVE output'[o] = NoRow
  BY DEF Removed
<1>2. ASSUME dest'[o] = dest[o]
      PROVE  output[o] = NoRow /\ ~Open(o) /\ ~Exists(o)
  BY <1>1, <1>2 DEF Removed, NoRow, Open, OPEN, Exists
<1>3. CASE Coordinator \/ TickFails
  <2>1. dest' = dest
    BY <1>3 DEF Coordinator, ReleaseLost, ReadAuto, InsertAuto, ReadPending, Assign, StopOrphans,
       TickFails, tables
  <2>2. output[o] = NoRow /\ ~Open(o) /\ ~Exists(o) /\ dest[o] = "deleted" /\ output[o].state = "none"
    BY <1>1, <1>2, <2>1 DEF NoRow
  <2> QED
    BY <1>3, <2>2 DEF Coordinator, ReleaseLost, ReadAuto, InsertAuto, ReadPending, Assign, StopOrphans,
       TickFails, tables, release, Update, assign, stopOrphans, Rows
<1>4. ASSUME NEW w \in Worker,
             \/ Lose(w) \/ Drain(w) \/ Start(w) \/ Beat(w) \/ WorkerDuty(w) \/ Crash(w)
             \/ PollStep(w) \/ PollFails(w)
             \/ \E p \in Output : RunnerReports(w, p) \/ RunnerEnds(w, p)
      PROVE  output'[o] = NoRow
  <2>1. dest' = dest /\ Written(w)
    BY <1>4, WorkerWrites
  <2>2. output[o] = NoRow /\ ~Open(o) /\ ~Exists(o) /\ output[o].state = "none"
    BY <1>1, <1>2, <2>1 DEF NoRow
  <2> QED
    BY <2>1, <2>2 DEF Written, release, unassign, report, Rows
<1>5. CASE \E r \in reports : Commit(r)
  BY <1>2, <1>5 DEF Commit, report, Rows
<1>6. ASSUME NEW p \in Output,
             \/ RequestDuty(p) \/ StartRequest(p) \/ StopRequest(p) \/ Delete(p) \/ Change(p)
             \/ SessionLive(p) \/ SessionOver(p)
      PROVE  output'[o] = NoRow
  <2>1. CASE Delete(p)
    BY <1>1, <1>2, <2>1 DEF Delete, deleteRow, Update, Rest, Rows
  <2>2. CASE Change(p)
    BY <1>1, <1>2, <2>2 DEF Change, Rest
  <2>3. CASE SessionOver(p)
    BY <1>2, <2>3 DEF SessionOver, sessionOver, Update, AskToStop, NoRow, Rows
  <2>4. CASE StartCommits(p)
    BY <1>1, <1>2, <2>4 DEF StartCommits, startRow, Update, Rows
  <2>5. CASE StopPending(p) \/ StopRequest(p)
    BY <1>2, <2>5 DEF StopPending, stopPending, StopRequest, stopOpen, Update, NoRow, newRow, Rows
  <2>6. CASE StartRequest(p) \/ SessionLive(p)
    BY <1>2, <2>6 DEF StartRequest, SessionLive, tables
  <2> QED
    BY <1>6, <2>1, <2>2, <2>3, <2>4, <2>5, <2>6 DEF RequestDuty
<1>7. CASE UNCHANGED vars
  BY <1>2, <1>7 DEF vars
<1> QED
  BY <1>3, <1>4, <1>5, <1>6, <1>7 DEF Next

\* What is around an output: its session, its destination, a start on its way.
Around(o) ==
  /\ session'[o] = session[o] /\ dest'[o] = dest[o]
  /\ (request'[o] = "start") <=> (request[o] = "start")

LEMMA AroundIs ==
  ASSUME NEW o \in Output, Around(o) PROVE Lifecycle!SameAround(o)
BY DEF Around, Lifecycle!SameAround, Lifecycle!Around

LEMMA StayMoves ==
  ASSUME NEW o \in Output, Around(o), output'[o] = output[o] PROVE Lifecycle!Move(o)
BY AroundIs DEF Lifecycle!Move, Lifecycle!Stay, Lifecycle!Rests, Lifecycle!Becomes

\* Each statement of outputs.js is one move of each output it changes.
LEMMA ReleaseMoves ==
  ASSUME Rows(output), NEW w, release(w), NEW o \in Output, Around(o) PROVE Lifecycle!Move(o)
<1>1. CASE output'[o] = output[o]
  BY <1>1, StayMoves
<1>2. CASE output'[o] # output[o]
  <2>1. Open(o) /\ output[o].desired = "run" /\ output'[o] = newRow
    BY <1>2 DEF release
  <2>2. output'[o].state = "pending" /\ output'[o].desired = "run" /\ output'[o].worker = NoWorker
    BY <2>1 DEF newRow
  <2>3. Lifecycle!Return(o)
    BY <2>1, <2>2, AroundIs DEF Lifecycle!Return, Lifecycle!Becomes, Open, OPEN
  <2> QED BY <2>3 DEF Lifecycle!Move
<1> QED BY <1>1, <1>2

LEMMA AssignMoves ==
  ASSUME Rows(output), NEW o \in Output, NEW w \in Worker \cup {NoWorker}, assign(o, w),
         NEW p \in Output, Around(p)
  PROVE  Lifecycle!Move(p)
<1>1. CASE output'[p] = output[p]
  BY <1>1, StayMoves
<1>2. CASE output'[p] # output[p]
  <2>1. /\ output[p].state = "pending" /\ output[p].worker = NoWorker
        /\ output'[p] = [output[p] EXCEPT !.worker = w]
    BY <1>2 DEF assign, Assigned, Rows
  <2>2. /\ output'[p].state = "pending" /\ output'[p].desired = output[p].desired
        /\ output'[p].worker = w /\ w \in Worker
    BY <1>2, <2>1 DEF Rows, Row
  <2>3. Lifecycle!Take(p)
    BY <2>1, <2>2, AroundIs DEF Lifecycle!Take, Lifecycle!Held, Lifecycle!Becomes
  <2> QED BY <2>3 DEF Lifecycle!Move
<1> QED BY <1>1, <1>2

LEMMA StopOrphansMoves ==
  ASSUME Rows(output), stopOrphans, NEW o \in Output, Around(o) PROVE Lifecycle!Move(o)
<1>1. CASE output'[o] = output[o]
  BY <1>1, StayMoves
<1>2. CASE output'[o] # output[o]
  <2>1. /\ Open(o) /\ output[o].desired = "stop"
        /\ output'[o] = [output[o] EXCEPT !.state = "ended"]
    BY <1>2 DEF stopOrphans
  <2>2. Lifecycle!CallOff(o)
    BY <2>1, AroundIs DEF Lifecycle!CallOff, Lifecycle!Open, Lifecycle!Becomes, Open, OPEN, Rows, Row
  <2> QED BY <2>2 DEF Lifecycle!Move
<1> QED BY <1>1, <1>2

LEMMA UnassignMoves ==
  ASSUME Rows(output), NEW o \in Output, unassign(o), NEW p \in Output, Around(p)
  PROVE  Lifecycle!Move(p)
<1>1. CASE output'[p] = output[p]
  BY <1>1, StayMoves
<1>2. CASE output'[p] # output[p]
  <2>1. output[p].state = "pending" /\ output'[p] = [output[p] EXCEPT !.worker = NoWorker]
    BY <1>2 DEF unassign, Rows
  <2>2. Lifecycle!Return(p)
    BY <2>1, AroundIs DEF Lifecycle!Return, Lifecycle!Becomes, Rows, Row
  <2> QED BY <2>2 DEF Lifecycle!Move
<1> QED BY <1>1, <1>2

LEMMA ReportMoves ==
  ASSUME Rows(output), NEW o \in Output, NEW to \in Report, NEW w \in Worker, report(o, to, w),
         NEW p \in Output, Around(p)
  PROVE  Lifecycle!Move(p)
<1>1. CASE output'[p] = output[p]
  BY <1>1, StayMoves
<1>2. CASE output'[p] # output[p]
  <2>1. /\ output[p].state # "none" /\ output[p].worker = w
        /\ output'[p] = [output[p] EXCEPT !.state = to]
    BY <1>2 DEF report, Rows, Exists
  <2>2. Lifecycle!Report(p)
    BY <2>1, AroundIs DEF Lifecycle!Report, Lifecycle!Held, Lifecycle!Becomes, Rows, Row, Report
  <2> QED BY <2>2 DEF Lifecycle!Move
<1> QED BY <1>1, <1>2

-----------------------------------------------------------------------------
(* The steps                                                               *)

\* A step that touches no output, or whose call failed.
LEMMA QuietMoves ==
  ASSUME UNCHANGED <<session, dest, output, request>>
  PROVE  \A o \in Output : Lifecycle!Move(o)
BY StayMoves DEF Around

LEMMA TickMoves ==
  ASSUME Rest, Rows(output), Looked, Coordinator \/ TickFails
  PROVE  \A o \in Output : Lifecycle!Move(o)
<1>1. \A p \in Output : Around(p)
  BY DEF Around, Coordinator, ReleaseLost, ReadAuto, InsertAuto, ReadPending, Assign, StopOrphans,
     TickFails, tables
<1>2. CASE ReleaseLost
  BY <1>1, <1>2, ReleaseMoves DEF ReleaseLost
<1>3. CASE \E o \in Output : InsertAuto(o)
  <2> PICK o \in Output : InsertAuto(o)
    BY <1>3
  <2>1. CASE UNCHANGED output
    BY <2>1, <1>1, StayMoves
  <2>2. CASE ~Exists(o) /\ dest[o] # "deleted" /\ Update(o, newRow)
    <3>1. session[o] # "idle"
      BY DEF InsertAuto, At, Looked
    <3>2. output'[o] = newRow /\ \A p \in Output \ {o} : output'[p] = output[p]
      BY <2>2 DEF Update, Rows
    <3>3. output'[o].state = "pending" /\ output'[o].desired = "run" /\ output'[o].worker = NoWorker
      BY <3>2 DEF newRow
    <3>4. Lifecycle!Insert(o)
      BY <1>1, <2>2, <3>1, <3>3, AroundIs DEF Lifecycle!Insert, Lifecycle!Becomes, Exists
    <3> QED BY <1>1, <3>2, <3>4, StayMoves DEF Lifecycle!Move
  <2> QED BY <2>1, <2>2 DEF InsertAuto
<1>4. CASE \E o \in Output : Assign(o)
  <2> PICK o \in Output : Assign(o)
    BY <1>4
  <2>1. tick.of \in Worker \cup {NoWorker} /\ assign(o, tick.of)
    BY DEF Assign, Rest, Place
  <2> QED BY <1>1, <2>1, AssignMoves
<1>5. CASE StopOrphans
  BY <1>1, <1>5, StopOrphansMoves DEF StopOrphans
<1>6. CASE ReadAuto \/ ReadPending \/ TickFails
  BY <1>1, <1>6, StayMoves DEF ReadAuto, ReadPending, TickFails, tables
<1> QED
  BY <1>2, <1>3, <1>4, <1>5, <1>6 DEF Coordinator

LEMMA WorkerMoves ==
  ASSUME Rest, Rows(output), NEW w \in Worker,
         \/ Lose(w) \/ Drain(w) \/ Start(w) \/ Beat(w) \/ WorkerDuty(w) \/ Crash(w)
         \/ PollStep(w) \/ PollFails(w)
         \/ \E o \in Output : RunnerReports(w, o) \/ RunnerEnds(w, o)
  PROVE  \A o \in Output : Lifecycle!Move(o)
<1>1. UNCHANGED <<session, dest, request>> /\ Written(w)
  BY WorkerWrites
<1>2. \A p \in Output : Around(p)
  BY <1>1 DEF Around
<1>3. CASE UNCHANGED output
  BY <1>1, <1>3, QuietMoves
<1>4. CASE release(w)
  BY <1>2, <1>4, ReleaseMoves
<1>5. CASE \E o \in Output : unassign(o)
  BY <1>2, <1>5, UnassignMoves
<1>6. CASE \E o \in Output : report(o, "ended", w)
  BY <1>2, <1>6, ReportMoves DEF Report
<1> QED
  BY <1>1, <1>3, <1>4, <1>5, <1>6 DEF Written

LEMMA CommitMoves ==
  ASSUME Rest, Rows(output), NEW r \in reports, Commit(r)
  PROVE  \A o \in Output : Lifecycle!Move(o)
<1>1. r.by \in Worker /\ r.of \in Output /\ r.to \in Report
  BY DEF Rest, RestreamTypeOK
<1>2. UNCHANGED <<session, dest, request>>
  BY DEF Commit, coordination
<1>3. CASE report(r.of, r.to, r.by)
  BY <1>1, <1>2, <1>3, ReportMoves DEF Around
<1>4. CASE UNCHANGED output
  BY <1>2, <1>4, QuietMoves
<1> QED
  BY <1>3, <1>4 DEF Commit

\* Owners and sessions: the row of one output, or what is around it.
LEMMA OwnerMoves ==
  ASSUME Rest, Rows(output), Removed, NEW o \in Output,
         \/ RequestDuty(o) \/ StartRequest(o) \/ StopRequest(o) \/ Delete(o) \/ Change(o)
         \/ SessionLive(o) \/ SessionOver(o)
  PROVE  \A p \in Output : Lifecycle!Move(p)
<1>1. ASSUME NEW p \in Output, p # o
      PROVE  Lifecycle!Move(p)
  <2>1. output'[p] = output[p]
    BY <1>1 DEF RequestDuty, StartCommits, StopPending, StartRequest, StopRequest, Delete, Change,
       SessionLive, SessionOver, startRow, stopPending, stopOpen, deleteRow, sessionOver, Update,
       Rows, tables
  <2>2. session'[p] = session[p]
    BY <1>1 DEF RequestDuty, StartCommits, StopPending, StartRequest, StopRequest, Delete, Change,
       SessionLive, SessionOver, sessionOver, Rest, tables
  <2>3. dest'[p] = dest[p]
    BY <1>1 DEF RequestDuty, StartCommits, StopPending, StartRequest, StopRequest, Delete, Change,
       SessionLive, SessionOver, deleteRow, Rest, tables
  <2>4. request'[p] = request[p]
    BY <1>1 DEF RequestDuty, StartCommits, StopPending, StartRequest, StopRequest, Delete, Change,
       SessionLive, SessionOver, Ask, Rest, coordination
  <2> QED BY <2>1, <2>2, <2>3, <2>4, StayMoves DEF Around
<1>2. Lifecycle!Move(o)
  <2>0. output[o] \in Row /\ request[o] \in {"none", "start", "stop"} /\ dest[o] \in DestState
        /\ session[o] \in SessionState
    BY DEF Rows, Rest
  <2>1. CASE StartCommits(o)
    <3>1. Lifecycle!Around(o, session[o], dest[o] = "deleted", FALSE) /\ request[o] = "start"
      BY <2>1 DEF StartCommits, Ask, Rest, Lifecycle!Around
    <3>2. output'[o] = IF Open(o) THEN [output[o] EXCEPT !.desired = "run"]
                       ELSE IF dest[o] = "deleted" THEN NoRow ELSE newRow
      BY <2>1 DEF StartCommits, startRow, Update, Rows
    <3>3. CASE Open(o)
      <4>1. /\ output'[o].state = output[o].state /\ output'[o].desired = "run"
            /\ output'[o].worker = output[o].worker
        BY <2>0, <3>2, <3>3 DEF Row
      <4> QED
        BY <3>1, <3>3, <4>1 DEF Lifecycle!Move, Lifecycle!Start, Lifecycle!Open, Lifecycle!Becomes,
           Open, OPEN
    <3>4. CASE ~Open(o) /\ dest[o] # "deleted"
      <4>1. output'[o].state = "pending" /\ output'[o].desired = "run" /\ output'[o].worker = NoWorker
        BY <3>2, <3>4 DEF newRow
      <4> QED
        BY <3>1, <3>4, <4>1 DEF Lifecycle!Move, Lifecycle!Start, Lifecycle!Open, Lifecycle!Becomes,
           Open, OPEN
    <3>5. CASE ~Open(o) /\ dest[o] = "deleted"
      <4>1. output'[o] = output[o]
        BY <3>2, <3>5 DEF Removed
      <4> QED
        BY <3>1, <3>5, <4>1 DEF Lifecycle!Move, Lifecycle!Start, Lifecycle!Rests, Lifecycle!Becomes
    <3> QED BY <3>3, <3>4, <3>5
  <2>2. CASE StopPending(o)
    <3>1. Around(o)
      BY <2>0, <2>2 DEF StopPending, Ask, Rest, Around
    <3>2. CASE output'[o] = output[o]
      BY <3>1, <3>2, StayMoves
    <3>3. CASE output'[o] # output[o]
      <4>1. /\ output[o] = [newRow EXCEPT !.desired = "stop"]
            /\ output'[o] = [output[o] EXCEPT !.state = "ended"]
        BY <2>2, <3>3 DEF StopPending, stopPending, Update, Rows
      <4>2. /\ output[o].state = "pending" /\ output[o].desired = "stop"
            /\ output'[o].state = "ended" /\ output'[o].desired = "stop"
            /\ output'[o].worker = output[o].worker
        BY <4>1 DEF newRow
      <4>3. Lifecycle!CallOff(o)
        BY <3>1, <4>2, AroundIs DEF Lifecycle!CallOff, Lifecycle!Open, Lifecycle!Becomes
      <4> QED BY <4>3 DEF Lifecycle!Move
    <3> QED BY <3>2, <3>3
  <2>3. CASE StartRequest(o)
    <3>1. output' = output /\ session[o] = "live" /\ dest[o] # "deleted" /\ request[o] = "none"
      BY <2>3 DEF StartRequest, NewRequest, startable, tables
    <3>2. Lifecycle!Around(o, session[o], dest[o] = "deleted", TRUE)
      BY <2>3 DEF StartRequest, Ask, Rest, Lifecycle!Around, tables
    <3> QED
      BY <3>1, <3>2 DEF Lifecycle!Move, Lifecycle!Claim, Lifecycle!Rests, Lifecycle!Becomes
  <2>4. CASE StopRequest(o)
    <3>1. Around(o)
      BY <2>0, <2>4 DEF StopRequest, NewRequest, Ask, Rest, Around
    <3>2. CASE output'[o] = output[o]
      BY <3>1, <3>2, StayMoves
    <3>3. CASE output'[o] # output[o]
      <4>1. Open(o) /\ output'[o] = [output[o] EXCEPT !.desired = "stop"]
        BY <2>4, <3>3 DEF StopRequest, stopOpen, AskToStop, Update, Rows
      <4>2. Lifecycle!Stop(o)
        BY <2>0, <3>1, <4>1, AroundIs DEF Lifecycle!Stop, Lifecycle!Open, Lifecycle!Becomes, Open, OPEN, Row
      <4> QED BY <4>2 DEF Lifecycle!Move
    <3> QED BY <3>2, <3>3
  <2>5. CASE Delete(o)
    <3>1. Lifecycle!Around(o, session[o], TRUE, request[o] = "start")
      BY <2>5 DEF Delete, deleteRow, Rest, Lifecycle!Around
    <3>2. output'[o].state = "none" /\ output'[o].desired = "stop" /\ output'[o].worker = NoWorker
      BY <2>5 DEF Delete, deleteRow, Update, Rows, NoRow
    <3>3. dest[o] # "deleted" /\ ~(Open(o) /\ Assigned(o))
      BY <2>5 DEF Delete
    <3>4. Lifecycle!Becomes(o, "none", FALSE, NoWorker)
      BY <3>2 DEF Lifecycle!Becomes
    <3>5. Lifecycle!Remove(o)
      BY <3>1, <3>3, <3>4 DEF Lifecycle!Remove, Lifecycle!Open, Lifecycle!Held, Lifecycle!Around,
         Open, OPEN, Assigned
    <3> QED BY <3>5 DEF Lifecycle!Move
  <2>6. CASE Change(o)
    <3>1. PICK d \in DestState \ {"deleted"} : dest' = [dest EXCEPT ![o] = d] /\ dest[o] # "deleted"
      BY <2>6 DEF Change
    <3>2. (dest'[o] = "deleted") = (dest[o] = "deleted")
      BY <3>1 DEF Rest
    <3>3. output' = output /\ session' = session /\ request' = request
      BY <2>6 DEF Change
    <3> QED
      BY <3>2, <3>3 DEF Lifecycle!Move, Lifecycle!Stay, Lifecycle!SameAround, Lifecycle!Around,
         Lifecycle!Rests, Lifecycle!Becomes
  <2>7. CASE SessionLive(o)
    <3>1. session[o] = "idle" /\ session'[o] = "live" /\ UNCHANGED <<output, dest, request>>
      BY <2>7 DEF SessionLive, Rest, coordination
    <3> QED
      BY <3>1 DEF Lifecycle!Move, Lifecycle!GoesOnAir, Lifecycle!Around, Lifecycle!Rests,
         Lifecycle!Becomes
  <2>8. CASE SessionOver(o)
    <3>1. session[o] = "live" /\ session'[o] = "over" /\ UNCHANGED <<dest, request>>
      BY <2>8 DEF SessionOver, sessionOver, Rest, coordination
    <3>2. /\ output'[o].state = output[o].state /\ output'[o].desired = "stop"
          /\ output'[o].worker = output[o].worker
      BY <2>0, <2>8 DEF SessionOver, sessionOver, Update, AskToStop, Rows, Row
    <3> QED
      BY <3>1, <3>2 DEF Lifecycle!Move, Lifecycle!GoesOff, Lifecycle!Around, Lifecycle!Becomes
  <2> QED
    BY <2>1, <2>2, <2>3, <2>4, <2>5, <2>6, <2>7, <2>8 DEF RequestDuty
<1> QED
  BY <1>1, <1>2

LEMMA Moves ==
  ASSUME Rest, Rows(output), Looked, Removed, [Next]_vars
  PROVE  \A o \in Output : Lifecycle!Move(o)
<1>1. CASE Coordinator \/ TickFails
  BY <1>1, TickMoves
<1>2. ASSUME NEW w \in Worker,
             \/ Lose(w) \/ Drain(w) \/ Start(w) \/ Beat(w) \/ WorkerDuty(w) \/ Crash(w)
             \/ PollStep(w) \/ PollFails(w)
             \/ \E o \in Output : RunnerReports(w, o) \/ RunnerEnds(w, o)
      PROVE  \A o \in Output : Lifecycle!Move(o)
  BY <1>2, WorkerMoves
<1>3. CASE \E r \in reports : Commit(r)
  BY <1>3, CommitMoves
<1>4. ASSUME NEW o \in Output,
             \/ RequestDuty(o) \/ StartRequest(o) \/ StopRequest(o) \/ Delete(o) \/ Change(o)
             \/ SessionLive(o) \/ SessionOver(o)
      PROVE  \A p \in Output : Lifecycle!Move(p)
  BY <1>4, OwnerMoves
<1>5. CASE UNCHANGED vars
  BY <1>5, QuietMoves DEF vars
<1> QED
  BY <1>1, <1>2, <1>3, <1>4, <1>5 DEF Next

LEMMA AlwaysLooked == Spec => [](Looked /\ Removed)
<1>1. Init => Looked /\ Removed
  BY DEF Init, StoreInit, Looked, Removed, Idle
<1>2. Rest /\ Rows(output) /\ Looked /\ Removed /\ [Next]_vars => Looked' /\ Removed'
  BY LookedStep, RemovedStep
<1> QED BY <1>1, <1>2, Always, PTL DEF Spec

\* OutputSystem implements OutputLifecycle: whatever drains, dies, is released,
\* reports late or is asked meanwhile, a stop stands until an accepted start
\* takes it back, an output changes hands only through nobody's, and one of a
\* deleted destination, or of a session that never was on air, never comes to be.
THEOREM LifecycleSpecHolds == Spec => LifecycleSpec
<1>1. Init => Lifecycle!Init
  <2> SUFFICES ASSUME Init PROVE Lifecycle!Init
    OBVIOUS
  <2>1. session = [o \in Output |-> "idle"] /\ \A o \in Output : dest[o] # "deleted"
    BY DEF Init, StoreInit
  <2>2. \A o \in Output : request[o] = "none" /\ output[o].state = "none"
                        /\ output[o].desired = "stop" /\ output[o].worker = NoWorker
    BY DEF Init, StoreInit, NoRow
  <2> QED BY <2>1, <2>2 DEF Lifecycle!Init
<1>2. Rest /\ Rows(output) /\ Looked /\ Removed /\ [Next]_vars => [Lifecycle!Next]_(Lifecycle!lifecycle)
  BY Moves DEF Lifecycle!Next
<1> QED BY <1>1, <1>2, Always, AlwaysLooked, PTL DEF Spec, LifecycleSpec, Lifecycle!Spec

=============================================================================
