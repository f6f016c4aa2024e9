-------------------------- MODULE RecordingLifecycle --------------------------
(***************************************************************************)
(* What a session whose recording was asked for is promised, whatever      *)
(* Media and the coordinator go through: its request walks the states of   *)
(* server/store/recordings.js; it is announced when, and only when, a film *)
(* of its own is being made; from then on it stays with that film, which   *)
(* is kept unless only clips were wanted; and it is given up on only after *)
(* enough attempts in a row, never before and never later.                 *)
(*                                                                         *)
(* This is the abstract specification: it says nothing of calls to Media,  *)
(* ticks, crashes or leases.  Recordings with one coordinator implements it.*)
(***************************************************************************)
EXTENDS Naturals

CONSTANTS Recording,
          Film, NoFilm,
          FewTries,    \* attempts in a row before a request may fail
          ManyTries    \* attempts in a row after which one that asks must fail

VARIABLES asked,     \* Recording -> mode and protocol
          over,      \* Recording -> its session is over
          state,     \* Recording -> state of its request, or "none"
          tries,     \* Recording -> failed attempts in a row
          announced, \* Recording -> how often the request was announced
          film,      \* Recording -> the film it was announced with
          footage    \* Recording -> what became of that film

lifecycle == <<asked, over, state, tries, announced, film, footage>>

Init ==
  /\ asked \in [Recording -> [mode : {"vod", "clips"}, protocol : {"rtmp", "webrtc", "jsmpeg"}]]
  /\ over = [r \in Recording |-> FALSE]
  /\ state = [r \in Recording |-> "none"]
  /\ tries = [r \in Recording |-> 0]
  /\ announced = [r \in Recording |-> 0]
  /\ film = [r \in Recording |-> NoFilm]
  /\ footage = [r \in Recording |-> "none"]

-----------------------------------------------------------------------------
(* One recording's share of a step                                         *)

Becomes(r, to, n) == state'[r] = to /\ tries'[r] = n
SameFilm(r) == announced'[r] = announced[r] /\ film'[r] = film[r]
Unseen(r) == SameFilm(r) /\ footage'[r] = footage[r] /\ over'[r] = over[r]

Stay(r) == Becomes(r, state[r], tries[r]) /\ Unseen(r)

SessionEnds(r) ==
  /\ ~over[r] /\ over'[r]
  /\ Becomes(r, state[r], tries[r]) /\ SameFilm(r) /\ footage'[r] = footage[r]

Enlist(r) == state[r] = "none" /\ Becomes(r, "pending", 0) /\ Unseen(r)

\* Media is being asked, again if the process died over it.
Ask(r) ==
  /\ state[r] \in {"pending", "requested"}
  /\ \E to \in {"pending", "requested"} : Becomes(r, to, tries[r])
  /\ Unseen(r)

\* The one announcement: Media makes a film of this session and of no other.
Begin(r) ==
  /\ state[r] \in {"pending", "requested"} /\ asked[r].protocol # "jsmpeg"
  /\ Becomes(r, "recording", 0)
  /\ announced[r] = 0 /\ announced'[r] = 1
  /\ film'[r] \in Film /\ \A q \in Recording \ {r} : film[q] # film'[r]
  /\ footage'[r] \in {"ingesting", "finalized"}
  /\ over'[r] = over[r]

Close(r) == over[r] /\ state[r] = "recording" /\ Becomes(r, "finalizing", tries[r]) /\ Unseen(r)

\* Media finalizes a film, by itself or because it was told to.
Develops(r) ==
  /\ over[r] /\ footage[r] = "ingesting" /\ footage'[r] = "finalized"
  /\ SameFilm(r) /\ over'[r] = over[r]
Develop(r) == Develops(r) /\ Becomes(r, state[r], tries[r])

\* Only clips were wanted: the film goes once it is finalized.
Discard(r) ==
  /\ state[r] = "finalizing" /\ asked[r].mode = "clips"
  /\ footage[r] = "finalized" /\ footage'[r] = "deleted"
  /\ Becomes(r, state[r], tries[r]) /\ SameFilm(r) /\ over'[r] = over[r]

Settle(r) ==
  /\ state[r] = "finalizing" /\ footage[r] \in {"finalized", "deleted"}
  /\ Becomes(r, "finalized", tries[r]) /\ Unseen(r)

Cancel(r) ==
  /\ state[r] = "pending" /\ over[r] /\ asked[r].protocol # "jsmpeg"
  /\ Becomes(r, "cancelled", tries[r]) /\ Unseen(r)

Reject(r) ==
  /\ state[r] = "pending" /\ asked[r].protocol = "jsmpeg"
  /\ Becomes(r, "failed", tries[r]) /\ Unseen(r)

\* An attempt failed, though Media may have done what it was asked.
Failed(r) == Unseen(r) \/ (state[r] = "finalizing" /\ Develops(r))

Retry(r) ==
  /\ \/ state[r] = "pending" /\ tries[r] + 1 < ManyTries
     \/ state[r] = "finalizing" /\ tries[r] + 1 < FewTries
  /\ Becomes(r, state[r], tries[r] + 1) /\ Failed(r)

GiveUp(r) ==
  /\ state[r] \in {"pending", "finalizing"} /\ tries[r] + 1 >= FewTries
  /\ Becomes(r, "failed", tries[r] + 1) /\ Failed(r)

Move(r) ==
  \/ Stay(r) \/ SessionEnds(r) \/ Enlist(r) \/ Ask(r) \/ Begin(r) \/ Close(r)
  \/ Develop(r) \/ Discard(r) \/ Settle(r)
  \/ Cancel(r) \/ Reject(r) \/ Retry(r) \/ GiveUp(r)

Next == asked' = asked /\ \A r \in Recording : Move(r)

Spec == Init /\ [][Next]_lifecycle
=============================================================================
