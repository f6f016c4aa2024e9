--------------------------- MODULE DefinitionStore ---------------------------
(***************************************************************************)
(* server/store/definitions.js: stream definitions, their ingest keys and  *)
(* the Live slot among their external refs.  Each operator is one          *)
(* statement or one serializable transaction; who calls them, and what is  *)
(* read before them, is in the modules that extend this one.  Refs of the  *)
(* shared types, and the other fields, have no effect on each other and    *)
(* are left out.                                                           *)
(***************************************************************************)
EXTENDS Integers, FiniteSets

CONSTANTS MaxStreams,  \* bound: definitions ever created
          MaxKeys,     \* bound: keys ever issued
          MaxNow,      \* bound: the clock
          Slot         \* Live's managed_streams

ASSUME StoreAssumption == MaxStreams \in Nat \ {0} /\ MaxKeys \in Nat \ {0} /\ MaxNow \in Nat

Stream == 1..MaxStreams
Key == 1..MaxKeys
NoStream == 0
NoKey == 0

VARIABLES definition,  \* stream_definitions, with their live:managed_stream refs
          key,         \* ingest_keys
          session,     \* Stream -> its open session: none, open, or open and asked to end
          now

store == <<definition, key, session, now>>

\* revived: state was written on it after it was archived.
Definition == [state : {"none", "active", "disabled", "archived"}, mirror : BOOLEAN,
               slots : SUBSET Slot, revived : BOOLEAN]
KeyRow == [of : Stream \cup {NoStream}, status : {"none", "active", "grace", "revoked"}, until : Int]

StoreTypeOK ==
  /\ definition \in [Stream -> Definition]
  /\ key \in [Key -> KeyRow]
  /\ session \in [Stream -> {"none", "open", "ending"}]
  /\ now \in 0..MaxNow

\* One stream was created before, and nothing happened to it yet.
StoreInit ==
  /\ definition = [s \in Stream |->
       [state |-> IF s = 1 THEN "active" ELSE "none", mirror |-> FALSE, slots |-> {},
        revived |-> FALSE]]
  /\ key = [k \in Key |-> [of |-> IF k = 1 THEN 1 ELSE NoStream,
                           status |-> IF k = 1 THEN "active" ELSE "none", until |-> 0]]
  /\ session = [s \in Stream |-> "none"]
  /\ now = 0

Archived(s) == definition[s].state = "archived"
Present(s) == definition[s].state \in {"active", "disabled"}   \* what get() and not archived finds

-----------------------------------------------------------------------------
(* Keys                                                                    *)

keysOf(s, status) == {k \in Key : key[k].of = s /\ key[k].status = status}
issued(k) == k \in Key /\ key[k].status = "none" /\ \A j \in 1..k - 1 : key[j].status # "none"
newKey(s) == [of |-> s, status |-> "active", until |-> 0]
revoked(row) == [row EXCEPT !.status = "revoked", !.until = 0]

activeKeys(s) == keysOf(s, "active")

\* Mutant of rotateKey: a key with grace is given its end and stays active.
rotateKeyActive(s, grace) ==
  \E k \in Key :
    /\ issued(k)
    /\ key' = [j \in Key |->
         IF j = k THEN newKey(s)
         ELSE IF j \notin activeKeys(s) THEN key[j]
         ELSE IF grace = 0 THEN revoked(key[j])
         ELSE [key[j] EXCEPT !.until = now + grace]]
\* rotateKey's transaction: every active key is retired and one is issued.
rotateKey(s, grace) ==
  \E k \in Key :
    /\ issued(k)
    /\ key' = [j \in Key |->
         IF j = k THEN newKey(s)
         ELSE IF j \notin activeKeys(s) THEN key[j]
         ELSE IF grace = 0 THEN revoked(key[j])
         ELSE [key[j] EXCEPT !.status = "grace", !.until = now + grace]]

\* resolveIngestKey, what it says of the key and then of its definition.
usable(k) == \/ key[k].status = "active"
             \/ key[k].status = "grace" /\ key[k].until > now
publishable(s) == definition[s].state = "active"

\* Mutant of expiredGrace: a key whose grace ends at the next tick is taken with it.
expiredGraceSoon == {k \in Key : key[k].status = "grace" /\ key[k].until <= now + 1}
expiredGrace == {k \in Key : key[k].status = "grace" /\ key[k].until <= now}
revokeKey(k) == key' = [key EXCEPT ![k] = revoked(key[k])]

-----------------------------------------------------------------------------
(* Definitions                                                             *)

\* byRef for a slot; definitions that are not archived come first.
holders(slot) == {s \in Stream : slot \in definition[s].slots}

\* Mutant of refTaken: a definition that is disabled counts as gone.
refTakenByActive(slot, s) == \E t \in holders(slot) \ {s} : definition[t].state = "active"
refTaken(slot, s) == \E t \in holders(slot) \ {s} : ~Archived(t)

\* create's transaction, unless a ref is taken.
created(s) == definition[s].state = "none" /\ \A t \in 1..s - 1 : definition[t].state # "none"
create(s, mirror, slots) ==
  /\ created(s) /\ \A slot \in slots : ~refTaken(slot, NoStream)
  /\ definition' = [definition EXCEPT ![s] =
       [state |-> "active", mirror |-> mirror, slots |-> slots, revived |-> FALSE]]
  /\ \E k \in Key : issued(k) /\ key' = [key EXCEPT ![k] = newKey(s)]

\* update's statement: the row is found by its id alone.  "same": not in the request.
update(s, mirror, state) ==
  LET d == definition[s] IN
  definition' = [definition EXCEPT ![s] =
    [d EXCEPT !.mirror = IF mirror = "same" THEN d.mirror ELSE mirror = "on",
              !.state = IF state = "same" THEN d.state ELSE state,
              !.revived = d.revived \/ (Archived(s) /\ state # "same")]]

\* addRef's transaction, unless it throws: 404 or 409.
addRefRefused(s, slot) == ~Present(s) \/ (slot \notin definition[s].slots /\ refTaken(slot, s))
addRef(s, slot) == definition' = [definition EXCEPT ![s].slots = @ \cup {slot}]

\* archive's transaction.
archive(s) ==
  /\ definition' = [definition EXCEPT ![s].state = "archived"]
  /\ key' = [k \in Key |-> IF k \in activeKeys(s) \cup keysOf(s, "grace")
                           THEN revoked(key[k]) ELSE key[k]]

=============================================================================
