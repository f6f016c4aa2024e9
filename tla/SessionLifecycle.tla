-------------------------- MODULE SessionLifecycle --------------------------
(***************************************************************************)
(* What OpenRestream promises about ingest sessions, whoever is racing on  *)
(* them: each session walks the state machine, the outbox tells exactly    *)
(* that story (started once, then ended or failed once, and nothing about  *)
(* a session that never carried media except its failure), and a stream    *)
(* has at most one open session.                                           *)
(*                                                                         *)
(* This is the abstract specification: it says nothing of workers, leases  *)
(* or the coordinator.  IngestSystem and TransportSystem implement it.     *)
(***************************************************************************)
EXTENDS Sequences, StateMachine

CONSTANTS Session,     \* session ids
          Definition,  \* stream definitions
          NoDefinition \* the definition of a session that does not exist yet

VARIABLES state,  \* Session -> state, or "none"
          stream, \* Session -> its definition
          told    \* Session -> the events about it in the outbox, in order

lifecycle == <<state, stream, told>>

OpenNow(s) == state[s] \in OPEN

Init ==
  /\ state = [s \in Session |-> "none"]
  /\ stream = [s \in Session |-> NoDefinition]
  /\ told = [s \in Session |-> <<>>]

-----------------------------------------------------------------------------
(* One session's share of a step. *)

Stay(s) == state'[s] = state[s] /\ stream'[s] = stream[s] /\ told'[s] = told[s]

Accept(s) ==
  /\ state[s] = "none"
  /\ state'[s] = "starting"
  /\ stream'[s] \in Definition
  /\ told'[s] = told[s]

Start(s) ==
  /\ state[s] = "starting"
  /\ state'[s] = "live"
  /\ stream'[s] = stream[s]
  /\ told'[s] = <<"started">>

\* A clean end: announced only for a session that was announced.
End(s) ==
  /\ OpenNow(s)
  /\ state'[s] = "ended"
  /\ stream'[s] = stream[s]
  /\ told'[s] = IF told[s] = <<>> THEN <<>> ELSE <<"started", "ended">>

Fail(s) ==
  /\ OpenNow(s)
  /\ state'[s] = "failed"
  /\ stream'[s] = stream[s]
  /\ told'[s] = Append(told[s], "failed")

Move(s) == Stay(s) \/ Accept(s) \/ Start(s) \/ End(s) \/ Fail(s)

\* At most one open session of a stream.
Exclusive ==
  \A s, t \in Session : OpenNow(s) /\ OpenNow(t) /\ stream[s] = stream[t] => s = t

\* Sessions move together in one step when one transaction moves them (an
\* admission fails the leftovers of its stream and inserts its own row).
Next ==
  /\ state' \in [Session -> STATES \cup {"none"}]
  /\ stream' \in [Session -> Definition \cup {NoDefinition}]
  /\ told' \in [Session -> Seq({"started", "ended", "failed"})]
  /\ \A s \in Session : Move(s)
  /\ Exclusive'

Spec == Init /\ [][Next]_lifecycle
=============================================================================
