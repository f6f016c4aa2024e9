--------------------------- MODULE OutputLifecycle ---------------------------
(***************************************************************************)
(* What the owner of a stream is promised about its pushes to other        *)
(* platforms, whoever restarts, drains, dies or reports late meanwhile:    *)
(* there is one for a session that is or was on air and a destination that *)
(* exists; it goes from one hand to the next only through nobody's, where  *)
(* it waits; and a stop, the owner's or the end of the session's, stands   *)
(* until a start that found the session on air takes it back.              *)
(*                                                                         *)
(* This is the abstract specification: it says nothing of polls, ticks,    *)
(* leases or calls.  OutputSystem implements it.                           *)
(***************************************************************************)
CONSTANTS Output,   \* pairs of a session and a destination
          Holder, Nobody

VARIABLES show,     \* Output -> its session: "idle", "live" or "over"
          gone,     \* Output -> its destination was deleted
          claimed,  \* Output -> a start was accepted and is not carried out yet
          push,     \* Output -> "none", "pending", "running" or "ended"
          wanted,   \* Output -> it is to run
          holder    \* Output -> whose it is

lifecycle == <<show, gone, claimed, push, wanted, holder>>

Init ==
  /\ show = [o \in Output |-> "idle"]
  /\ gone = [o \in Output |-> FALSE]
  /\ claimed = [o \in Output |-> FALSE]
  /\ push = [o \in Output |-> "none"]
  /\ wanted = [o \in Output |-> FALSE]
  /\ holder = [o \in Output |-> Nobody]

-----------------------------------------------------------------------------
(* One output's share of a step                                            *)

Becomes(o, to, want, h) == push'[o] = to /\ wanted'[o] = want /\ holder'[o] = h
Rests(o) == Becomes(o, push[o], wanted[o], holder[o])
Around(o, s, g, c) == show'[o] = s /\ gone'[o] = g /\ claimed'[o] = c
SameAround(o) == Around(o, show[o], gone[o], claimed[o])

Open(o) == push[o] \in {"pending", "running"}
Held(o) == holder[o] # Nobody

Stay(o) == SameAround(o) /\ Rests(o)

GoesOnAir(o) == show[o] = "idle" /\ Around(o, "live", gone[o], claimed[o]) /\ Rests(o)
GoesOff(o) ==
  /\ show[o] = "live" /\ Around(o, "over", gone[o], claimed[o])
  /\ Becomes(o, push[o], FALSE, holder[o])

\* By itself, for a session that was on air when it was looked at.
Insert(o) ==
  /\ push[o] = "none" /\ show[o] # "idle" /\ ~gone[o]
  /\ SameAround(o) /\ Becomes(o, "pending", TRUE, Nobody)

\* An owner's start: the session is on air when it is accepted.
Claim(o) == show[o] = "live" /\ ~gone[o] /\ ~claimed[o] /\ Around(o, show[o], gone[o], TRUE) /\ Rests(o)
Start(o) ==
  /\ claimed[o] /\ Around(o, show[o], gone[o], FALSE)
  /\ \/ Open(o) /\ Becomes(o, push[o], TRUE, holder[o])
     \/ ~Open(o) /\ ~gone[o] /\ Becomes(o, "pending", TRUE, Nobody)
     \/ gone[o] /\ Rests(o)

Stop(o) == Open(o) /\ SameAround(o) /\ Becomes(o, push[o], FALSE, holder[o])

Take(o) ==
  /\ push[o] = "pending" /\ ~Held(o)
  /\ SameAround(o) /\ \E h \in Holder : Becomes(o, "pending", wanted[o], h)

\* What its holder says of it, which may arrive late and out of order.
Report(o) ==
  /\ push[o] # "none" /\ Held(o)
  /\ SameAround(o) /\ \E to \in {"running", "ended"} : Becomes(o, to, wanted[o], holder[o])

\* It goes back when it is to run, or has not begun.
Return(o) ==
  /\ push[o] = "pending" \/ (push[o] = "running" /\ wanted[o])
  /\ SameAround(o) /\ Becomes(o, "pending", wanted[o], Nobody)

CallOff(o) == Open(o) /\ ~wanted[o] /\ SameAround(o) /\ Becomes(o, "ended", FALSE, holder[o])

\* For good; not while it is somebody's.
Remove(o) ==
  /\ ~gone[o] /\ ~(Open(o) /\ Held(o))
  /\ Around(o, show[o], TRUE, claimed[o]) /\ Becomes(o, "none", FALSE, Nobody)

Move(o) ==
  \/ Stay(o) \/ GoesOnAir(o) \/ GoesOff(o) \/ Insert(o) \/ Claim(o) \/ Start(o) \/ Stop(o)
  \/ Take(o) \/ Report(o) \/ Return(o) \/ CallOff(o) \/ Remove(o)

Next == \A o \in Output : Move(o)

Spec == Init /\ [][Next]_lifecycle
=============================================================================
