--------------------------- MODULE IngestStoreProofs ---------------------------
(***************************************************************************)
(* What the statements and transactions of IngestStore do to the rows of   *)
(* `workers` and `ingest_sessions`: lemmas for the proofs about the        *)
(* systems that share these tables.                                        *)
(***************************************************************************)
EXTENDS IngestStore, SequenceTheorems, FiniteSetTheorems, TLAPS

USE StoreAssumption DEF StoreAssumption

-----------------------------------------------------------------------------
(* Types                                                                   *)

LEMMA EventConcat ==
  ASSUME NEW a \in Seq(Event), NEW b \in Seq(Event)
  PROVE  a \o b \in Seq(Event)
BY ConcatProperties

LEMMA AnnouncementType ==
  ASSUME NEW row, NEW to
  PROVE  announcement(row, to) \in Seq(Event)
<1>1. /\ <<>> \in Seq(Event) /\ <<"started">> \in Seq(Event)
      /\ <<"ended">> \in Seq(Event) /\ <<"failed">> \in Seq(Event)
  BY DEF Event
<1>2. QED BY <1>1, Zenon DEF announcement, Announced

LEMMA Bounds ==
  /\ Past \in Lease /\ LeaseTicks \in Lease
  /\ 0 \in Age
BY DEF Lease, Age, Past

LEMMA TransitionType ==
  ASSUME NEW row \in SessionRow, NEW to \in STATES
  PROVE  applyTransition(row, to) \in SessionRow
<1>1. Moved(row, to) \in SessionRow
  BY Bounds DEF Moved, SessionRow
<1>2. QED BY <1>1 DEF applyTransition

LEMMA WoundType ==
  ASSUME NEW row \in SessionRow
  PROVE  Wound(row) \in SessionRow
BY TransitionType DEF Wound, STATES

LEMMA TransitionStores ==
  ASSUME StoreTypeOK, NEW s \in Session, NEW to \in STATES, transition(s, to),
         worker' = worker
  PROVE  StoreTypeOK'
BY TransitionType, AnnouncementType, EventConcat DEF StoreTypeOK, transition

LEMMA FinishStores ==
  ASSUME StoreTypeOK, NEW s \in Session, finish(s), worker' = worker
  PROVE  StoreTypeOK'
BY TransitionType, WoundType, AnnouncementType, EventConcat DEF StoreTypeOK, finish, STATES

LEMMA AdmitStores ==
  ASSUME StoreTypeOK, NEW s \in Session, NEW d \in Definition \cup {NoDefinition},
         NEW w \in Worker \cup {NoWorker}, admit(s, d, w), worker' = worker
  PROVE  StoreTypeOK'
<1>1. insert(d, w) \in SessionRow
  BY Bounds DEF insert, SessionRow, STATES
<1>2. session' \in [Session -> SessionRow]
  BY <1>1, TransitionType DEF StoreTypeOK, admit, STATES
<1>3. told' \in [Session -> Seq(Event)]
  BY AnnouncementType, EventConcat DEF StoreTypeOK, admit
<1>4. QED BY <1>2, <1>3 DEF StoreTypeOK

LEMMA SetWorkerType ==
  ASSUME worker \in [Worker -> WorkerRow], NEW w \in Worker, NEW from,
         NEW to \in {"draining", "stopped", "lost"}, setWorker(w, from, to)
  PROVE  worker' \in [Worker -> WorkerRow]
BY Bounds DEF setWorker, WorkerRow, ALIVE

LEMMA RegisterType ==
  ASSUME worker \in [Worker -> WorkerRow], NEW w \in Worker, register(w) \/ ready(w)
  PROVE  worker' \in [Worker -> WorkerRow]
<1>1. /\ [state |-> "starting", age |-> 0] \in WorkerRow
      /\ [state |-> "ready", age |-> 0] \in WorkerRow
  BY Bounds DEF WorkerRow, ALIVE
<1>2. QED BY <1>1 DEF register, ready

LEMMA HeartbeatStores ==
  ASSUME StoreTypeOK, NEW w \in Worker, heartbeat(w)
  PROVE  StoreTypeOK'
<1>1. worker' \in [Worker -> WorkerRow]
  BY Bounds DEF StoreTypeOK, heartbeat, WorkerRow
<1>2. session' \in [Session -> SessionRow]
  <2>1. ASSUME NEW s \in Session
        PROVE  [session[s] EXCEPT !.lease = LeaseTicks] \in SessionRow
    BY Bounds DEF StoreTypeOK, SessionRow
  <2>2. QED BY <2>1 DEF StoreTypeOK, heartbeat
<1>3. QED BY <1>1, <1>2 DEF StoreTypeOK, heartbeat

-----------------------------------------------------------------------------
(* What a statement may do to one session                                  *)

\* The row of s neither appears, nor changes hands, nor opens.
Kept(s) ==
  /\ (session'[s].state = "none") <=> (session[s].state = "none")
  /\ session'[s].definition = session[s].definition
  /\ session'[s].worker = session[s].worker
  /\ Open(s)' => Open(s)

\* As long as s is open it loses no lease.
LeaseKept(s) == Open(s)' => session'[s].lease >= session[s].lease

LEMMA MoveKeeps ==
  ASSUME NEW row \in SessionRow, NEW to \in STATES
  PROVE  LET after == applyTransition(row, to) IN
         /\ (after.state = "none") <=> (row.state = "none")
         /\ after.definition = row.definition
         /\ after.worker = row.worker
         /\ after.state \in OPEN => row.state \in OPEN /\ after.lease = row.lease
<1>1. CASE canTransition(row.state, to)
  <2>1. row.state \in OPEN
    BY <1>1 DEF canTransition, NEXT, STATES, OPEN, TERMINAL
  <2>2. /\ Moved(row, to).state = to
        /\ Moved(row, to).definition = row.definition
        /\ Moved(row, to).worker = row.worker
        /\ to \in OPEN => Moved(row, to).lease = row.lease
    BY DEF Moved, SessionRow, isTerminal, OPEN
  <2>3. QED BY <1>1, <2>1, <2>2 DEF applyTransition, STATES, OPEN
<1>2. CASE ~canTransition(row.state, to)
  BY <1>2 DEF applyTransition
<1>3. QED BY <1>1, <1>2

LEMMA WoundKeeps ==
  ASSUME NEW row \in SessionRow
  PROVE  LET after == Wound(row) IN
         /\ (after.state = "none") <=> (row.state = "none")
         /\ after.definition = row.definition
         /\ after.worker = row.worker
         /\ after.state \in OPEN => row.state \in OPEN /\ after.lease = row.lease
BY MoveKeeps DEF Wound, STATES

\* finish() leaves nothing open.
LEMMA WoundEnds ==
  ASSUME NEW row \in SessionRow
  PROVE  applyTransition(Wound(row), "ended").state \notin OPEN
<1>1. CASE row.state \in {"starting", "live"}
  <2>1. Wound(row).state = "ending"
    BY <1>1 DEF Wound, applyTransition, canTransition, NEXT, STATES, Moved, SessionRow
  <2>2. Wound(row) \in SessionRow
    BY WoundType
  <2>3. QED
    BY <2>1, <2>2
       DEF applyTransition, canTransition, NEXT, STATES, Moved, SessionRow, OPEN, TERMINAL
<1>2. CASE row.state \notin {"starting", "live"}
  BY <1>2 DEF Wound, applyTransition, canTransition, NEXT, STATES, Moved, SessionRow, OPEN, TERMINAL
<1>3. QED BY <1>1, <1>2

LEMMA TransitionKeeps ==
  ASSUME StoreTypeOK, NEW s \in Session, NEW to \in STATES, transition(s, to)
  PROVE  \A t \in Session : Kept(t) /\ LeaseKept(t)
<1> SUFFICES ASSUME NEW t \in Session PROVE Kept(t) /\ LeaseKept(t)
  OBVIOUS
<1>1. session[t] \in SessionRow /\ session[t].lease \in Int
  BY DEF StoreTypeOK, SessionRow, Lease, Past
<1>2. session'[t] = IF t = s THEN applyTransition(session[t], to) ELSE session[t]
  BY DEF StoreTypeOK, transition
<1>3. QED BY <1>1, <1>2, MoveKeeps DEF Kept, LeaseKept, Open

LEMMA FinishKeeps ==
  ASSUME StoreTypeOK, NEW s \in Session, finish(s)
  PROVE  /\ \A t \in Session : Kept(t) /\ LeaseKept(t)
         /\ ~Open(s)'
<1>1. ASSUME NEW t \in Session PROVE Kept(t) /\ LeaseKept(t)
  <2>1. session[t] \in SessionRow /\ session[t].lease \in Int
    BY DEF StoreTypeOK, SessionRow, Lease, Past
  <2>2. session'[t] = IF t = s THEN applyTransition(Wound(session[t]), "ended") ELSE session[t]
    BY DEF StoreTypeOK, finish
  <2>3. CASE t = s
    <3>1. Wound(session[t]) \in SessionRow
      BY <2>1, WoundType
    <3>2. QED BY <2>1, <2>2, <2>3, <3>1, MoveKeeps, WoundKeeps DEF Kept, LeaseKept, Open, STATES
  <2>4. CASE t # s
    BY <2>1, <2>2, <2>4 DEF Kept, LeaseKept, Open
  <2>5. QED BY <2>3, <2>4
<1>2. ~Open(s)'
  BY WoundEnds DEF StoreTypeOK, finish, Open
<1>3. QED BY <1>1, <1>2

LEMMA HeartbeatKeeps ==
  ASSUME StoreTypeOK, NEW w \in Worker, heartbeat(w)
  PROVE  \A t \in Session : Kept(t) /\ LeaseKept(t)
<1> SUFFICES ASSUME NEW t \in Session PROVE Kept(t) /\ LeaseKept(t)
  OBVIOUS
<1>1. session[t] \in SessionRow /\ session[t].lease \in Past..LeaseTicks
  BY DEF StoreTypeOK, SessionRow, Lease
<1>2. session'[t] = IF Alive(w) /\ t \in ofWorker(w)
                    THEN [session[t] EXCEPT !.lease = LeaseTicks] ELSE session[t]
  BY DEF heartbeat
<1>3. CASE Alive(w) /\ t \in ofWorker(w)
  BY <1>1, <1>2, <1>3 DEF Kept, LeaseKept, Open, SessionRow, Past
<1>4. CASE ~(Alive(w) /\ t \in ofWorker(w))
  BY <1>1, <1>2, <1>4 DEF Kept, LeaseKept, Open, Past
<1>5. QED BY <1>3, <1>4

LEMMA UnchangedKeeps ==
  ASSUME StoreTypeOK, UNCHANGED session
  PROVE  \A t \in Session : Kept(t) /\ LeaseKept(t)
BY DEF Kept, LeaseKept, Open, StoreTypeOK, SessionRow, Lease, Past

LEMMA RequestKeeps ==
  ASSUME StoreTypeOK, NEW s \in Session, requestEnd(s)
  PROVE  \A t \in Session : Kept(t) /\ LeaseKept(t)
BY DEF requestEnd, Kept, LeaseKept, Open, StoreTypeOK, SessionRow, Lease, Past

\* An admission opens its own session, which was not there, and keeps every
\* other one except the leftovers of its stream, which it closes.
LEMMA AdmissionKeeps ==
  ASSUME StoreTypeOK, NEW s \in Session, NEW d, NEW w, admit(s, d, w)
  PROVE  /\ session[s].state = "none" /\ session'[s] = insert(d, w)
         /\ \A t \in Session \ {s} : Kept(t) /\ LeaseKept(t)
         /\ \A t \in Session \ {s} : Open(t)' => session'[t].definition # d
<1>1. session[s].state = "none" /\ session'[s] = insert(d, w)
  BY DEF admit, StoreTypeOK
<1>2. ASSUME NEW t \in Session \ {s}
      PROVE  /\ Kept(t) /\ LeaseKept(t)
             /\ Open(t)' => session'[t].definition # d
  <2>1. session[t] \in SessionRow /\ session[t].lease \in Int
    BY DEF StoreTypeOK, SessionRow, Lease, Past
  <2>2. CASE t \in openForDefinition(d)
    <3>1. session'[t] = applyTransition(session[t], "failed")
      BY <1>2, <2>2 DEF admit
    <3>2. session[t].state \in OPEN
      BY <2>2 DEF openForDefinition, Open
    <3>3. applyTransition(session[t], "failed").state \notin OPEN
      <4>1. canTransition(session[t].state, "failed")
        BY <3>2 DEF canTransition, NEXT, STATES, OPEN, TERMINAL
      <4>2. Moved(session[t], "failed").state = "failed"
        BY <2>1 DEF Moved, SessionRow
      <4>3. QED BY <4>1, <4>2 DEF applyTransition, OPEN, TERMINAL
    <3>4. QED BY <2>1, <3>1, <3>3, MoveKeeps DEF Kept, LeaseKept, Open, STATES
  <2>3. CASE t \notin openForDefinition(d)
    <3>1. session'[t] = session[t]
      BY <1>2, <2>3 DEF admit
    <3>2. QED BY <2>1, <2>3, <3>1 DEF Kept, LeaseKept, Open, openForDefinition
  <2>4. QED BY <2>2, <2>3
<1>3. QED BY <1>1, <1>2

\* A transition, and a finish, change the state of a row to theirs or not at all.
LEMMA MoveTo ==
  ASSUME NEW row \in SessionRow, NEW to \in STATES
  PROVE  /\ applyTransition(row, to).state \in {row.state, to}
         /\ applyTransition(Wound(row), "ended").state \in {row.state, "ending", "ended"}
<1>1. ASSUME NEW r \in SessionRow, NEW t \in STATES
      PROVE  applyTransition(r, t).state \in {r.state, t}
  <2>1. Moved(r, t).state = t
    BY DEF Moved, SessionRow
  <2> QED
    BY <2>1 DEF applyTransition
<1>2. Wound(row).state \in {row.state, "ending"} /\ Wound(row) \in SessionRow
  BY <1>1, WoundType DEF Wound, STATES
<1>3. applyTransition(Wound(row), "ended").state \in {Wound(row).state, "ended"}
  BY <1>1, <1>2 DEF STATES
<1> QED
  BY <1>1, <1>2, <1>3

-----------------------------------------------------------------------------
(* Counting                                                                *)

\* A set of at most m members, after a step that keeps it or adds one member
\* while the bound grows.
LEMMA Counted ==
  ASSUME NEW A, NEW B, NEW m \in Nat, NEW n \in Nat,
         IsFiniteSet(A), Cardinality(A) <= m, m <= n,
         B \subseteq A \/ (m < n /\ \E e : B \subseteq A \cup {e})
  PROVE  IsFiniteSet(B) /\ Cardinality(B) <= n
<1>0. Cardinality(A) \in Nat
  BY FS_CardinalityType
<1>1. CASE B \subseteq A
  <2>1. IsFiniteSet(B) /\ Cardinality(B) <= Cardinality(A) /\ Cardinality(B) \in Nat
    BY <1>1, FS_Subset, FS_CardinalityType
  <2> QED
    BY <1>0, <2>1
<1>2. ASSUME NEW e, m < n, B \subseteq A \cup {e}
      PROVE  IsFiniteSet(B) /\ Cardinality(B) <= n
  <2>1. /\ IsFiniteSet(A \cup {e})
        /\ Cardinality(A \cup {e}) \in {Cardinality(A), Cardinality(A) + 1}
    BY FS_AddElement
  <2>2. IsFiniteSet(B) /\ Cardinality(B) <= Cardinality(A \cup {e}) /\ Cardinality(B) \in Nat
    BY <1>2, <2>1, FS_Subset, FS_CardinalityType
  <2> QED
    BY <1>0, <1>2, <2>1, <2>2
<1> QED
  BY <1>1, <1>2

-----------------------------------------------------------------------------
(* The life cycle                                                          *)
(*                                                                         *)
(* Whatever is done to the rows and the outbox is a step of the sessions'  *)
(* life cycle.  The invariant, Recounted, says how far the outbox has told *)
(* the story of each session.                                              *)

\* What the outbox has said of a session that can still move.
Story(row, events) ==
  /\ row.state # "ending"
  /\ row.state \in {"none", "starting"} => events = <<>> /\ ~row.wentLive
  /\ row.state = "live" => events = <<"started">> /\ row.wentLive

Recounted == \A s \in Session : Story(session[s], told[s])

-----------------------------------------------------------------------------
(* One session's share of a step                                           *)

\* The ways a row and its events change, in the words of SessionLifecycle.
Stays(s) ==
  /\ session'[s].state = session[s].state /\ session'[s].wentLive = session[s].wentLive
  /\ session'[s].definition = session[s].definition /\ told'[s] = told[s]
Accepted(s) ==
  /\ session[s].state = "none" /\ session'[s].state = "starting" /\ ~session'[s].wentLive
  /\ session'[s].definition \in Definition /\ told'[s] = told[s]
Started(s) ==
  /\ session[s].state = "starting" /\ session'[s].state = "live" /\ session'[s].wentLive
  /\ session'[s].definition = session[s].definition /\ told'[s] = <<"started">>
Closed(s) ==
  /\ Open(s) /\ session'[s].definition = session[s].definition
  /\ \/ session'[s].state = "ended"
        /\ told'[s] = IF told[s] = <<>> THEN <<>> ELSE <<"started", "ended">>
     \/ session'[s].state = "failed" /\ told'[s] = Append(told[s], "failed")

Walks(s) == Stays(s) \/ Accepted(s) \/ Started(s) \/ Closed(s)

LEMMA Announcements ==
  /\ \A q \in Seq(Event) : q \o <<>> = q
  /\ <<>> \o <<"started">> = <<"started">>
  /\ <<"started">> \o <<"ended">> = <<"started", "ended">>
  /\ \A q \in Seq(Event) : q \o <<"failed">> = Append(q, "failed")
<1>1. \A q \in Seq(Event) : q \o <<>> = q /\ <<>> \o q = q
  BY ConcatEmptySeq
<1>2. <<"started">> \in Seq(Event) /\ <<"ended">> \in Seq(Event) /\ <<"failed">> \in Seq(Event)
      /\ <<"started", "ended">> \in Seq(Event)
  BY DEF Event
<1>3. ASSUME NEW q \in Seq(Event), NEW e \in Event
      PROVE  q \o <<e>> = Append(q, e)
  <2> DEFINE a == q \o <<e>>
             b == Append(q, e)
  <2>1. /\ a \in Seq(Event) /\ Len(a) = Len(q) + 1
        /\ \A i \in 1..Len(q) + 1 : a[i] = IF i <= Len(q) THEN q[i] ELSE <<e>>[i - Len(q)]
    <3>1. <<e>> \in Seq(Event) /\ Len(<<e>>) = 1
      OBVIOUS
    <3> QED
      BY <3>1, ConcatProperties
  <2>2. /\ b \in Seq(Event) /\ Len(b) = Len(q) + 1
        /\ \A i \in 1..Len(q) : b[i] = q[i]
        /\ b[Len(q) + 1] = e
    BY DEF Event
  <2> HIDE DEF a, b
  <2>3. ASSUME NEW i \in 1..Len(q) + 1
        PROVE  a[i] = b[i]
    <3>1. CASE i \in 1..Len(q)
      BY <2>1, <2>2, <3>1
    <3>2. CASE i = Len(q) + 1
      <4>1. i - Len(q) = 1 /\ ~(i <= Len(q))
        BY <3>2
      <4> QED
        BY <2>1, <2>2, <3>2, <4>1
    <3> QED
      BY <3>1, <3>2
  <2>4. \A i \in 1..Len(a) : a[i] = b[i]
    BY <2>1, <2>3
  <2>5. a = b
    BY <2>1, <2>2, <2>4, SeqEqual
  <2> QED
    BY <2>5 DEF a, b
<1>4. <<"started">> \o <<"ended">> = <<"started", "ended">>
  <2> DEFINE a == Append(<<"started">>, "ended")
             b == <<"started", "ended">>
  <2>1. a \in Seq(Event) /\ Len(a) = 2 /\ a[1] = "started" /\ a[2] = "ended"
    BY DEF Event
  <2>2. b \in Seq(Event) /\ Len(b) = 2 /\ b[1] = "started" /\ b[2] = "ended"
    BY DEF Event
  <2> HIDE DEF a, b
  <2>3. \A i \in 1..Len(a) : a[i] = b[i]
    BY <2>1, <2>2
  <2>4. a = b
    BY <2>1, <2>2, <2>3, SeqEqual
  <2> QED
    BY <1>2, <1>3, <2>4 DEF a, b, Event
<1>5. \A q \in Seq(Event) : q \o <<"failed">> = Append(q, "failed")
  BY <1>3 DEF Event
<1> QED
  BY <1>1, <1>2, <1>4, <1>5

\* A walk tells a story.
LEMMA WalkTells ==
  ASSUME NEW s \in Session, Story(session[s], told[s]), Walks(s)
  PROVE  Story(session[s], told[s])'
  BY DEF Walks, Stays, Accepted, Started, Closed, Story

\* What a transition does to a row, state by state.
LEMMA Transitions ==
  ASSUME NEW row \in SessionRow, row.state # "ending", NEW to \in {"live", "failed"}
  PROVE  IF row.state = "starting" \/ (row.state = "live" /\ to = "failed")
         THEN /\ applyTransition(row, to).state = to
              /\ applyTransition(row, to).definition = row.definition
              /\ to = "live" => applyTransition(row, to).wentLive
              /\ announcement(row, to) = IF to = "live" THEN <<"started">> ELSE <<"failed">>
         ELSE applyTransition(row, to) = row /\ announcement(row, to) = <<>>
<1>1. canTransition(row.state, to) <=> (row.state = "starting" \/ (row.state = "live" /\ to = "failed"))
  <2>1. row.state \in {"none", "starting", "live", "ended", "failed"}
    BY DEF SessionRow, STATES
  <2>2. CASE row.state = "none"
    BY <2>2 DEF canTransition, STATES
  <2>3. CASE row.state = "starting"
    BY <2>3 DEF canTransition, NEXT, STATES
  <2>4. CASE row.state = "live"
    BY <2>4 DEF canTransition, NEXT, STATES
  <2>5. CASE row.state \in {"ended", "failed"}
    BY <2>5 DEF canTransition, NEXT, STATES
  <2> QED
    BY <2>1, <2>2, <2>3, <2>4, <2>5
<1>2. /\ Moved(row, to).state = to /\ Moved(row, to).definition = row.definition
      /\ to = "live" => Moved(row, to).wentLive
  BY DEF Moved, SessionRow
<1>3. Announced(row, to) = IF to = "live" THEN <<"started">> ELSE <<"failed">>
  BY DEF Announced
<1> QED
  BY <1>1, <1>2, <1>3 DEF applyTransition, announcement

\* finish() ends what is open and leaves the rest alone.
LEMMA Finishes ==
  ASSUME NEW row \in SessionRow, row.state # "ending"
  PROVE  IF row.state \in {"starting", "live"}
         THEN /\ applyTransition(Wound(row), "ended").state = "ended"
              /\ applyTransition(Wound(row), "ended").definition = row.definition
              /\ announcement(Wound(row), "ended") = IF row.wentLive THEN <<"ended">> ELSE <<>>
         ELSE applyTransition(Wound(row), "ended") = row /\ announcement(Wound(row), "ended") = <<>>
<1>1. CASE row.state \in {"starting", "live"}
  <2>1. Wound(row) = Moved(row, "ending")
    BY <1>1 DEF Wound, applyTransition, canTransition, NEXT, STATES
  <2>2. /\ Wound(row).state = "ending" /\ Wound(row).definition = row.definition
        /\ Wound(row).wentLive = row.wentLive /\ Wound(row) \in SessionRow
    BY <2>1, WoundType DEF Moved, SessionRow
  <2>3. canTransition(Wound(row).state, "ended")
    BY <2>2 DEF canTransition, NEXT, STATES
  <2>4. /\ Moved(Wound(row), "ended").state = "ended"
        /\ Moved(Wound(row), "ended").definition = row.definition
    BY <2>2 DEF Moved, SessionRow
  <2>5. Announced(Wound(row), "ended") = IF row.wentLive THEN <<"ended">> ELSE <<>>
    BY <2>2 DEF Announced
  <2> QED
    BY <1>1, <2>3, <2>4, <2>5 DEF applyTransition, announcement
<1>2. CASE row.state \notin {"starting", "live"}
  <2>1. ~canTransition(row.state, "ended")
    BY <1>2 DEF canTransition, NEXT, STATES, SessionRow
  <2> QED
    BY <1>2, <2>1 DEF Wound, applyTransition, announcement
<1> QED
  BY <1>1, <1>2

LEMMA TransitionWalks ==
  ASSUME StoreTypeOK, Recounted, NEW s \in Session, NEW to \in {"live", "failed"}, transition(s, to)
  PROVE  \A t \in Session : Walks(t)
<1> SUFFICES ASSUME NEW t \in Session PROVE Walks(t)
  OBVIOUS
<1>1. session[t] \in SessionRow /\ told[t] \in Seq(Event) /\ Story(session[t], told[t])
  BY DEF StoreTypeOK, Recounted
<1>2. CASE t # s
  BY <1>2 DEF StoreTypeOK, transition, Walks, Stays
<1>3. CASE t = s
  <2>1. /\ session'[t] = applyTransition(session[t], to)
        /\ told'[t] = told[t] \o announcement(session[t], to)
    BY <1>3 DEF StoreTypeOK, transition
  <2>2. CASE session[t].state = "starting" /\ to = "live"
    <3>1. session'[t].state = "live" /\ session'[t].wentLive /\ session'[t].definition = session[t].definition
      BY <1>1, <2>1, <2>2, Transitions DEF Story
    <3>2. told[t] = <<>> /\ announcement(session[t], to) = <<"started">>
      BY <1>1, <2>2, Transitions DEF Story
    <3>3. told'[t] = <<"started">>
      BY <2>1, <3>2, Announcements
    <3> QED
      BY <2>2, <3>1, <3>3 DEF Walks, Started
  <2>3. CASE session[t].state \in {"starting", "live"} /\ to = "failed"
    BY <1>1, <2>1, <2>3, Transitions, Announcements DEF Story, Walks, Closed, Open, OPEN, STATES, TERMINAL
  <2>4. CASE ~(session[t].state = "starting" \/ (session[t].state = "live" /\ to = "failed"))
    BY <1>1, <2>1, <2>4, Transitions, Announcements DEF Story, Walks, Stays
  <2> QED
    BY <2>2, <2>3, <2>4
<1> QED
  BY <1>2, <1>3

LEMMA FinishWalks ==
  ASSUME StoreTypeOK, Recounted, NEW s \in Session, finish(s)
  PROVE  \A t \in Session : Walks(t)
<1> SUFFICES ASSUME NEW t \in Session PROVE Walks(t)
  OBVIOUS
<1>1. session[t] \in SessionRow /\ told[t] \in Seq(Event) /\ Story(session[t], told[t])
  BY DEF StoreTypeOK, Recounted
<1>2. CASE t # s
  BY <1>2 DEF StoreTypeOK, finish, Walks, Stays
<1>3. CASE t = s
  <2>1. /\ session'[t] = applyTransition(Wound(session[t]), "ended")
        /\ told'[t] = told[t] \o announcement(Wound(session[t]), "ended")
    BY <1>3 DEF StoreTypeOK, finish
  <2>2. CASE session[t].state \in {"starting", "live"}
    <3>1. session'[t].state = "ended" /\ session'[t].definition = session[t].definition
      BY <1>1, <2>1, <2>2, Finishes DEF Story
    <3>2. told'[t] = IF told[t] = <<>> THEN <<>> ELSE <<"started", "ended">>
      <4>1. CASE session[t].state = "starting"
        BY <1>1, <2>1, <4>1, Finishes, Announcements DEF Story
      <4>2. CASE session[t].state = "live"
        <5>1. told[t] = <<"started">> /\ announcement(Wound(session[t]), "ended") = <<"ended">>
          BY <1>1, <4>2, Finishes DEF Story
        <5>2. told'[t] = <<"started", "ended">>
          BY <2>1, <5>1, Announcements
        <5> QED
          BY <5>1, <5>2
      <4> QED
        BY <2>2, <4>1, <4>2
    <3> QED
      BY <2>2, <3>1, <3>2 DEF Walks, Closed, Open, OPEN, STATES, TERMINAL
  <2>3. CASE session[t].state \notin {"starting", "live"}
    BY <1>1, <2>1, <2>3, Finishes, Announcements DEF Story, Walks, Stays
  <2> QED
    BY <2>2, <2>3
<1> QED
  BY <1>2, <1>3

LEMMA AdmitWalks ==
  ASSUME StoreTypeOK, Recounted, NEW s \in Session, NEW d \in Definition, NEW w, admit(s, d, w)
  PROVE  \A t \in Session : Walks(t)
<1> SUFFICES ASSUME NEW t \in Session PROVE Walks(t)
  OBVIOUS
<1>1. session[t] \in SessionRow /\ told[t] \in Seq(Event) /\ Story(session[t], told[t])
  BY DEF StoreTypeOK, Recounted
<1>2. CASE t = s
  <2>1. session[t].state = "none" /\ session'[t] = insert(d, w) /\ told'[t] = told[t]
    BY <1>2 DEF admit, openForDefinition, Open, OPEN, STATES
  <2> QED
    BY <2>1 DEF insert, Walks, Accepted
<1>3. CASE t # s /\ t \in openForDefinition(d)
  <2>1. /\ session'[t] = applyTransition(session[t], "failed")
        /\ told'[t] = told[t] \o announcement(session[t], "failed")
    BY <1>3 DEF admit
  <2>2. Open(t) /\ session[t].state \in {"starting", "live"}
    BY <1>1, <1>3 DEF openForDefinition, Open, OPEN, STATES, TERMINAL, Story
  <2> QED
    BY <1>1, <2>1, <2>2, Transitions, Announcements DEF Story, Walks, Closed
<1>4. CASE t # s /\ t \notin openForDefinition(d)
  BY <1>4 DEF admit, Walks, Stays
<1> QED
  BY <1>2, <1>3, <1>4

LEMMA OthersStay ==
  ASSUME StoreTypeOK, UNCHANGED told,
         UNCHANGED session \/ (\E w \in Worker : heartbeat(w)) \/ (\E s \in Session : requestEnd(s))
  PROVE  \A t \in Session : Walks(t)
<1> SUFFICES ASSUME NEW t \in Session PROVE Stays(t)
  BY DEF Walks
<1>1. session[t] \in SessionRow
  BY DEF StoreTypeOK
<1>2. CASE UNCHANGED session
  BY <1>2 DEF Stays
<1>3. ASSUME NEW w \in Worker, heartbeat(w)
      PROVE  Stays(t)
  BY <1>1, <1>3 DEF heartbeat, Stays, SessionRow
<1>4. ASSUME NEW s \in Session, requestEnd(s)
      PROVE  Stays(t)
  BY <1>1, <1>4 DEF requestEnd, Stays, SessionRow, StoreTypeOK
<1> QED
  BY <1>2, <1>3, <1>4

-----------------------------------------------------------------------------
(* One open session per stream                                             *)

LEMMA KeptExclusive ==
  ASSUME OneOpenSession, \A t \in Session : Kept(t)
  PROVE  OneOpenSession'
BY DEF OneOpenSession, Kept

\* The newcomer is refused, or closes what it takes over from.
LEMMA AdmitExclusive ==
  ASSUME StoreTypeOK, OneOpenSession, NEW s \in Session, NEW d, NEW w, admit(s, d, w)
  PROVE  OneOpenSession'
<1>1. /\ session'[s] = insert(d, w)
      /\ \A t \in Session \ {s} : Kept(t)
      /\ \A t \in Session \ {s} : Open(t)' => session'[t].definition # d
  BY AdmissionKeeps
<1>2. session'[s].definition = d
  BY <1>1 DEF insert
<1> QED
  BY <1>1, <1>2 DEF OneOpenSession, Kept

-----------------------------------------------------------------------------
(* Every statement of sessions.js, as a step of the two systems            *)

Statement ==
  \/ UNCHANGED <<session, told>>
  \/ \E w \in Worker : heartbeat(w)
  \/ \E s \in Session : requestEnd(s) \/ finish(s)
  \/ \E s \in Session, to \in {"live", "failed"} : transition(s, to)
  \/ \E s \in Session, d \in Definition, w \in Worker : admit(s, d, w)

LEMMA StatementWalks ==
  ASSUME StoreTypeOK, Recounted, Statement
  PROVE  \A t \in Session : Walks(t)
<1>1. CASE \/ UNCHANGED <<session, told>>
           \/ \E w \in Worker : heartbeat(w)
           \/ \E s \in Session : requestEnd(s)
  BY <1>1, OthersStay DEF heartbeat, requestEnd
<1>2. CASE \E s \in Session : finish(s)
  BY <1>2, FinishWalks
<1>3. CASE \E s \in Session, to \in {"live", "failed"} : transition(s, to)
  BY <1>3, TransitionWalks
<1>4. CASE \E s \in Session, d \in Definition, w \in Worker : admit(s, d, w)
  BY <1>4, AdmitWalks
<1> QED
  BY <1>1, <1>2, <1>3, <1>4 DEF Statement

LEMMA StatementExclusive ==
  ASSUME StoreTypeOK, OneOpenSession, Statement
  PROVE  OneOpenSession'
<1>1. CASE \/ UNCHANGED <<session, told>>
           \/ \E w \in Worker : heartbeat(w)
           \/ \E s \in Session : requestEnd(s)
  BY <1>1, KeptExclusive, UnchangedKeeps, HeartbeatKeeps, RequestKeeps
<1>2. CASE \E s \in Session : finish(s)
  BY <1>2, KeptExclusive, FinishKeeps
<1>3. CASE \E s \in Session, to \in {"live", "failed"} : transition(s, to)
  BY <1>3, KeptExclusive, TransitionKeeps DEF STATES
<1>4. CASE \E s \in Session, d \in Definition, w \in Worker : admit(s, d, w)
  BY <1>4, AdmitExclusive
<1> QED
  BY <1>1, <1>2, <1>3, <1>4 DEF Statement

-----------------------------------------------------------------------------
(* The refinement of SessionLifecycle                                      *)

LEMMA SameStates ==
  /\ Lifecycle!STATES = STATES /\ Lifecycle!OPEN = OPEN
  BY DEF STATES, OPEN, TERMINAL, Lifecycle!STATES, Lifecycle!OPEN, Lifecycle!TERMINAL

LEMMA LifecycleInit ==
  ASSUME session = [s \in Session |-> NoSession], told = [s \in Session |-> <<>>]
  PROVE  Lifecycle!Init
BY DEF NoSession, Lifecycle!Init

LEMMA WalkRecounts ==
  ASSUME Recounted, \A s \in Session : Walks(s)
  PROVE  Recounted'
BY WalkTells DEF Recounted

\* Sessions that all walk, and leave one open per stream, take a step of the
\* life cycle.
LEMMA WalkRefines ==
  ASSUME StoreTypeOK', \A s \in Session : Walks(s), OneOpenSession'
  PROVE  Lifecycle!Next
<1>1. /\ [s \in Session |-> session'[s].state] \in [Session -> Lifecycle!STATES \cup {"none"}]
      /\ [s \in Session |-> session'[s].definition] \in [Session -> Definition \cup {NoDefinition}]
      /\ told' \in [Session -> Seq({"started", "ended", "failed"})]
  BY SameStates DEF StoreTypeOK, SessionRow, Event
<1>2. ASSUME NEW s \in Session
      PROVE  Lifecycle!Move(s)
  <2>1. Walks(s)
    OBVIOUS
  <2>2. Lifecycle!OpenNow(s) <=> Open(s)
    BY SameStates DEF Open, Lifecycle!OpenNow
  <2>3. CASE Stays(s)
    BY <2>3 DEF Stays, Lifecycle!Move, Lifecycle!Stay
  <2>4. CASE Accepted(s)
    BY <2>4 DEF Accepted, Lifecycle!Move, Lifecycle!Accept
  <2>5. CASE Started(s)
    BY <2>5 DEF Started, Lifecycle!Move, Lifecycle!Start
  <2>6. CASE Closed(s)
    BY <2>2, <2>6 DEF Closed, Lifecycle!Move, Lifecycle!End, Lifecycle!Fail
  <2> QED
    BY <2>1, <2>3, <2>4, <2>5, <2>6 DEF Walks
<1>3. Lifecycle!Exclusive'
  BY SameStates DEF OneOpenSession, Open, Lifecycle!Exclusive, Lifecycle!OpenNow
<1> QED
  BY <1>1, <1>2, <1>3 DEF Lifecycle!Next
=============================================================================
