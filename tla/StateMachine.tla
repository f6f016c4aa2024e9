---------------------------- MODULE StateMachine ----------------------------
(***************************************************************************)
(* The ingest-session state machine, server/state-machine.js: one table of *)
(* allowed moves and the two questions every writer asks of it.  "none" is *)
(* not a state of the table; the store's modules use it for a row that has *)
(* not been inserted yet.                                                  *)
(***************************************************************************)

STATES == {"starting", "live", "ending", "ended", "failed"}
TERMINAL == {"ended", "failed"}

\* OPEN of server/store/sessions.js: the states a session row is "open" in.
OPEN == STATES \ TERMINAL

NEXT == [starting |-> {"live", "ending", "failed"},
         live     |-> {"ending", "failed"},
         ending   |-> {"ended", "failed"},
         ended    |-> {},
         failed   |-> {}]

canTransition(from, to) == from \in STATES /\ to \in NEXT[from]
isTerminal(state) == state \in TERMINAL

=============================================================================
