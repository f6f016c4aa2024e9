---------------------------- MODULE StreamSystem ----------------------------
(***************************************************************************)
(* Stream definitions and their keys under everybody who works on them at  *)
(* the same time: owners and services through the API, encoders that       *)
(* publish, the import from Live, the coordinator and time.                *)
(***************************************************************************)
EXTENDS LiveMigration

vars == <<store, api, migration>>

TypeOK == StoreTypeOK /\ ApiTypeOK /\ MigrationTypeOK

Init == StoreInit /\ ApiInit /\ MigrationInit

\* The coordinator's tick revokes what expiredGrace finds, key by key.
ExpireGraceKey(k) ==
  /\ k \in expiredGrace
  /\ revokeKey(k)
  /\ UNCHANGED <<definition, session, now, api, migration>>
ExpireGraceKeys == \E k \in Key : ExpireGraceKey(k)

Tick ==
  /\ now < MaxNow /\ now' = now + 1
  /\ UNCHANGED <<definition, key, session, api, migration>>

Next ==
  \/ \E c \in Caller : Request1(c) /\ UNCHANGED migration
  \/ Encoder /\ UNCHANGED migration
  \/ Migrate
  \/ ExpireGraceKeys \/ Tick

Spec == Init /\ [][Next]_vars

-----------------------------------------------------------------------------
(* Properties                                                              *)

\* Rotations, archivings and imports in any order leave a stream at most one
\* active key: what "retire every active one" is for (definitions.js:208-225).
OneActiveKey == \A s \in Stream : \A j, k \in activeKeys(s) : j = k

\* A key in grace keeps authenticating until its grace is over, through further
\* rotations of any kind and the coordinator's ticks; only archiving ends it
\* early (definitions.js:209-211, 246-251).
GraceIsKept ==
  [][\A k \in Key :
       key[k].status = "grace" /\ key[k].until > now /\ key'[k] # key[k]
       => definition'[key[k].of].state = "archived"]_vars

\* A Live slot is shown by one stream at a time, whoever records it: the API, the
\* link or the import (definitions.js:149-154, 183-188); except a stream whose
\* state was written after it was archived.
SlotHeldOnce ==
  \A slot \in Slot : \A s, t \in holders(slot) :
    s = t \/ Archived(s) \/ Archived(t) \/ definition[s].revived \/ definition[t].revived

\* The write of a PATCH that is not an owner's, or with no link configured (v1.js:183).
WrittenAsAsked(s) ==
  \E c \in Caller : At(c, "writing") /\ Of(c) = s /\ request[c].direct /\ request'[c] # request[c]

\* For owners, mirror_to_live follows the outcome of the link: one who switches it on
\* has a slot by then, whatever else was written to the stream meanwhile
\* (live-link.js:50, 63-69; v1.js:182-189).  Only a service's PATCH, and any PATCH
\* where no link is configured, switches it on without one; and a stream that is
\* created with it on has none before its link is through.
MirrorFollowsLink ==
  [][\A s \in Stream :
       definition'[s].mirror /\ ~definition[s].mirror /\ definition[s].state # "none"
       => definition'[s].slots # {} \/ WrittenAsAsked(s)]_vars

\* Running the import again is idempotent (migrate-live.js:13): without an
\* interruption there is one destination, and each interruption costs one at most.
CopiesCostInterruptions == Cardinality(copies) <= 1 + interruptions
=============================================================================
