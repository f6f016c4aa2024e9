---------------------------- MODULE PushLifecycle ----------------------------
(***************************************************************************)
(* What the runners of an output promise, in terms of the platform that    *)
(* is pushed to: each makes one push, its connections come one after the   *)
(* other, at most Tries of them between two stable runs, and none is begun *)
(* after the push is over.  The last one may outlive the push for as long  *)
(* as its process takes to go: that is not said here.                      *)
(***************************************************************************)
EXTENDS Naturals

CONSTANTS Pusher, Tries

VARIABLES push,   \* Pusher -> what the platform sees
          tries   \* Pusher -> connections since the push began or was last stable

Becomes(p, to, n) == push'[p] = to /\ tries'[p] = n

Connect(p) == push[p] = "waiting" /\ tries[p] < Tries /\ Becomes(p, "connected", tries[p] + 1)
Confirm(p) == push[p] = "connected" /\ Becomes(p, "live", tries[p])
Settle(p) == push[p] = "live" /\ Becomes(p, "live", 1)
Break(p) == push[p] \in {"connected", "live"} /\ Becomes(p, "waiting", tries[p])
GiveUp(p) == Becomes(p, "over", 0)
Rest(p) == Becomes(p, push[p], tries[p])

PushStep(p) == Connect(p) \/ Confirm(p) \/ Settle(p) \/ Break(p) \/ GiveUp(p) \/ Rest(p)

PushInit == push = [p \in Pusher |-> "waiting"] /\ tries = [p \in Pusher |-> 0]

PushSpec == PushInit /\ [][\A p \in Pusher : PushStep(p)]_<<push, tries>>

=============================================================================
