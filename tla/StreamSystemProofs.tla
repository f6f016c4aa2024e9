------------------------- MODULE StreamSystemProofs -------------------------
(***************************************************************************)
(* Proofs about StreamSystem, for any number of streams, keys, slots,      *)
(* concurrent requests, publishes, copies and interruptions.               *)
(*                                                                         *)
(* The store changes in few ways: each is shown to keep the tables well    *)
(* formed and to let definitions only grow (Grows), and that is all the    *)
(* requests and the import that hold a stream between two of their steps   *)
(* rely on.                                                                *)
(***************************************************************************)
EXTENDS StreamSystem, TLAPS, FiniteSetTheorems

USE StoreAssumption, RequestAssumption, MigrationAssumption DEF Stream, Key, NoStream, NoKey, Copy, NoCopy

-----------------------------------------------------------------------------
(* The inductive invariant                                                 *)

\* A key belongs to a stream that was created.
KeysKnown == \A k \in Key : key[k].of # NoStream => definition[key[k].of].state # "none"

\* What a request holds on to between its steps: a stream that was created and,
\* when it is about to switch mirror_to_live on, that has a slot, unless it writes
\* that as it was asked.
Requests ==
  \A c \in Caller : ~At(c, "idle") =>
    /\ Of(c) \in Stream /\ definition[Of(c)].state # "none"
    /\ request[c].mirror = "on" => definition[Of(c)].slots # {} \/ request[c].direct

\* Every copy but the one the map names, or the run is about to name, is one
\* that an interruption left behind.
Copies ==
  /\ copies \subseteq 1..made /\ destMap \in 0..made
  /\ run.step \in {"copying", "copied"} => destMap \notin copies
  /\ Cardinality(copies \ {IF run.step = "copied" THEN made ELSE destMap}) <= interruptions

IInv == TypeOK /\ OneActiveKey /\ SlotHeldOnce /\ KeysKnown /\ Requests /\ Copies

-----------------------------------------------------------------------------
(* Definitions                                                             *)

\* What was created stays created and keeps its slots; mirror_to_live is
\* switched on only where there is a slot or a request says so.
Grows ==
  \A s \in Stream : definition[s].state # "none" =>
    /\ definition'[s].state # "none"
    /\ definition[s].slots \subseteq definition'[s].slots
    /\ definition'[s].mirror /\ ~definition[s].mirror
         => definition'[s].slots # {} \/ WrittenAsAsked(s)

DefinitionsKeep == definition' \in [Stream -> Definition] /\ Grows /\ SlotHeldOnce'

LEMMA SameDefinitions ==
  ASSUME definition \in [Stream -> Definition], SlotHeldOnce, definition' = definition
  PROVE  DefinitionsKeep
  BY DEF DefinitionsKeep, Grows, SlotHeldOnce, holders, Archived

\* No unarchived definition holds a slot of the one that is created.
LEMMA CreateKeeps ==
  ASSUME definition \in [Stream -> Definition], SlotHeldOnce,
         NEW s \in Stream, NEW mirror \in BOOLEAN, NEW slots \in SUBSET Slot, create(s, mirror, slots)
  PROVE  DefinitionsKeep /\ definition'[s].state = "active" /\ definition[s].state = "none"
<1> DEFINE D == [state |-> "active", mirror |-> mirror, slots |-> slots, revived |-> FALSE]
<1>1. /\ definition' = [definition EXCEPT ![s] = D] /\ D \in Definition
      /\ definition[s].state = "none"
      /\ \A slot \in slots : \A t \in Stream : slot \in definition[t].slots => Archived(t)
  BY DEF create, created, refTaken, holders, Definition
<1>2. /\ definition' \in [Stream -> Definition] /\ definition'[s] = D
      /\ \A t \in Stream \ {s} : definition'[t] = definition[t]
  BY <1>1
<1>3. Grows
  BY <1>1, <1>2 DEF Grows
<1>4. ASSUME NEW slot \in Slot, NEW t \in Stream, NEW u \in Stream,
             slot \in definition'[t].slots, slot \in definition'[u].slots
      PROVE  t = u \/ Archived(t)' \/ Archived(u)' \/ definition'[t].revived \/ definition'[u].revived
  <2>1. CASE t = s
    BY <1>1, <1>2, <1>4, <2>1 DEF Archived
  <2>2. CASE u = s
    BY <1>1, <1>2, <1>4, <2>2 DEF Archived
  <2>3. CASE t # s /\ u # s
    BY <1>2, <1>4, <2>3 DEF SlotHeldOnce, holders, Archived
  <2> QED BY <2>1, <2>2, <2>3
<1>5. SlotHeldOnce'
  BY <1>4 DEF SlotHeldOnce, holders
<1> QED BY <1>1, <1>2, <1>3, <1>5 DEF DefinitionsKeep

\* An archived definition that gets a state again is marked revived.
LEMMA UpdateKeeps ==
  ASSUME definition \in [Stream -> Definition], SlotHeldOnce,
         NEW s \in Stream, NEW mirror \in {"same", "on", "off"}, NEW state \in {"same", "active", "disabled"},
         mirror = "on" => definition[s].slots # {} \/ WrittenAsAsked(s), update(s, mirror, state)
  PROVE  DefinitionsKeep
<1> DEFINE d == definition[s]
           m == IF mirror = "same" THEN d.mirror ELSE mirror = "on"
           st == IF state = "same" THEN d.state ELSE state
           rv == d.revived \/ (Archived(s) /\ state # "same")
           D == [d EXCEPT !.mirror = m, !.state = st, !.revived = rv]
<1>1. d \in Definition /\ m \in BOOLEAN /\ st \in {"none", "active", "disabled", "archived"} /\ rv \in BOOLEAN
  BY DEF Definition
<1>2. definition' = [definition EXCEPT ![s] = D]
  BY DEF update
<1> HIDE DEF m, st, rv
<1>3. D \in Definition /\ D.slots = d.slots /\ D.state = st /\ D.mirror = m /\ D.revived = rv
  BY <1>1 DEF Definition
<1> HIDE DEF D
<1>4. /\ definition' \in [Stream -> Definition] /\ definition'[s] = D
      /\ \A t \in Stream \ {s} : definition'[t] = definition[t]
  BY <1>2, <1>3
<1>5. Grows
  BY <1>3, <1>4 DEF Grows, m, st
<1>6. \A t \in Stream : /\ definition'[t].slots = definition[t].slots
                        /\ definition[t].revived => definition'[t].revived
                        /\ Archived(t) => Archived(t)' \/ definition'[t].revived
  BY <1>3, <1>4 DEF st, rv, Archived
<1>7. SlotHeldOnce'
  BY <1>6 DEF SlotHeldOnce, holders
<1> QED BY <1>4, <1>5, <1>7 DEF DefinitionsKeep

LEMMA AddRefKeeps ==
  ASSUME definition \in [Stream -> Definition], SlotHeldOnce,
         NEW s \in Stream, NEW slot \in Slot, ~addRefRefused(s, slot), addRef(s, slot)
  PROVE  DefinitionsKeep /\ definition'[s].slots # {}
<1> DEFINE D == [definition[s] EXCEPT !.slots = @ \cup {slot}]
<1>1. definition' = [definition EXCEPT ![s] = D]
  BY DEF addRef
<1>2. /\ D \in Definition /\ D.slots = definition[s].slots \cup {slot} /\ D.state = definition[s].state
      /\ D.mirror = definition[s].mirror /\ D.revived = definition[s].revived
  BY DEF Definition
<1> HIDE DEF D
<1>3. /\ definition' \in [Stream -> Definition] /\ definition'[s] = D
      /\ \A t \in Stream \ {s} : definition'[t] = definition[t]
  BY <1>1, <1>2
<1>4. Grows /\ definition'[s].slots # {}
  BY <1>2, <1>3 DEF Grows
<1>5. \/ slot \in definition[s].slots
      \/ \A t \in Stream \ {s} : slot \in definition[t].slots => Archived(t)
  BY DEF addRefRefused, refTaken, holders
<1>6. ASSUME NEW q \in Slot, NEW t \in Stream, NEW u \in Stream,
             q \in definition'[t].slots, q \in definition'[u].slots
      PROVE  t = u \/ Archived(t)' \/ Archived(u)' \/ definition'[t].revived \/ definition'[u].revived
  <2>1. \A v \in Stream : /\ Archived(v)' <=> Archived(v)
                          /\ definition'[v].revived = definition[v].revived
    BY <1>2, <1>3 DEF Archived
  <2>2. CASE q \in definition[t].slots /\ q \in definition[u].slots
    BY <2>1, <2>2 DEF SlotHeldOnce, holders
  <2>3. CASE q \notin definition[t].slots
    <3>1. t = s /\ q = slot
      BY <1>2, <1>3, <1>6, <2>3
    <3> QED BY <1>3, <1>5, <1>6, <2>1, <2>3, <3>1
  <2>4. CASE q \notin definition[u].slots
    <3>1. u = s /\ q = slot
      BY <1>2, <1>3, <1>6, <2>4
    <3> QED BY <1>3, <1>5, <1>6, <2>1, <2>4, <3>1
  <2> QED BY <2>2, <2>3, <2>4
<1>7. SlotHeldOnce'
  BY <1>6 DEF SlotHeldOnce, holders
<1> QED BY <1>3, <1>4, <1>7 DEF DefinitionsKeep

LEMMA ArchiveKeeps ==
  ASSUME definition \in [Stream -> Definition], SlotHeldOnce, NEW s \in Stream, archive(s)
  PROVE  DefinitionsKeep /\ definition'[s].state = "archived"
<1> DEFINE D == [definition[s] EXCEPT !.state = "archived"]
<1>1. definition' = [definition EXCEPT ![s] = D]
  BY DEF archive
<1>2. /\ D \in Definition /\ D.state = "archived" /\ D.slots = definition[s].slots
      /\ D.mirror = definition[s].mirror /\ D.revived = definition[s].revived
  BY DEF Definition
<1> HIDE DEF D
<1>3. /\ definition' \in [Stream -> Definition] /\ definition'[s] = D
      /\ \A t \in Stream \ {s} : definition'[t] = definition[t]
  BY <1>1, <1>2
<1>4. Grows
  BY <1>2, <1>3 DEF Grows
<1>5. \A t \in Stream : /\ definition'[t].slots = definition[t].slots
                        /\ definition[t].revived = definition'[t].revived
                        /\ Archived(t) => Archived(t)'
  BY <1>2, <1>3 DEF Archived
<1>6. SlotHeldOnce'
  BY <1>5 DEF SlotHeldOnce, holders
<1> QED BY <1>2, <1>3, <1>4, <1>6 DEF DefinitionsKeep

-----------------------------------------------------------------------------
(* Keys                                                                    *)

GraceStep ==
  \A k \in Key : key[k].status = "grace" /\ key[k].until > now /\ key'[k] # key[k]
               => definition'[key[k].of].state = "archived"

KeysKeep == key' \in [Key -> KeyRow] /\ OneActiveKey' /\ KeysKnown' /\ GraceStep

Keys == key \in [Key -> KeyRow] /\ OneActiveKey /\ KeysKnown /\ now \in Nat

LEMMA SameKeys == ASSUME Keys, Grows, key' = key PROVE KeysKeep
<1>1. OneActiveKey'
  BY DEF Keys, OneActiveKey, activeKeys, keysOf
<1>2. KeysKnown'
  BY DEF Keys, KeysKnown, Grows, KeyRow
<1> QED BY <1>1, <1>2 DEF Keys, KeysKeep, GraceStep

\* One key is issued to a stream that has no active one any more.
LEMMA IssueKeeps ==
  ASSUME Keys, Grows, NEW s \in Stream, NEW k \in Key, issued(k), definition'[s].state # "none",
         key' \in [Key -> KeyRow], key'[k] = newKey(s),
         \A j \in Key \ {k} : key'[j].of = key[j].of /\
           (key'[j].status = "active" => key[j].status = "active" /\ key[j].of # s),
         \A j \in Key \ {k} : key[j].status = "grace" => key'[j] = key[j]
  PROVE  KeysKeep
<1>1. newKey(s).of = s /\ key[k].status = "none"
  BY DEF newKey, issued
<1>2. OneActiveKey'
  BY <1>1 DEF Keys, OneActiveKey, activeKeys, keysOf
<1>3. KeysKnown'
  <2>1. SUFFICES ASSUME NEW j \in Key, key'[j].of # NoStream
                 PROVE  definition'[key'[j].of].state # "none"
    BY DEF KeysKnown
  <2>2. CASE j = k
    BY <1>1, <2>2
  <2>3. CASE j # k
    <3>1. key'[j].of = key[j].of /\ key[j].of \in Stream
      BY <2>1, <2>3 DEF Keys, KeyRow
    <3> QED BY <2>1, <3>1 DEF Keys, KeysKnown, Grows
  <2> QED BY <2>2, <2>3
<1>4. GraceStep
  BY <1>1 DEF GraceStep
<1> QED BY <1>2, <1>3, <1>4 DEF KeysKeep

\* A new stream has no keys yet.
LEMMA CreateKeysKeep ==
  ASSUME Keys, Grows, NEW s \in Stream, NEW mirror, NEW slots, create(s, mirror, slots),
         definition'[s].state = "active"
  PROVE  KeysKeep
<1>1. PICK k \in Key : issued(k) /\ key' = [key EXCEPT ![k] = newKey(s)]
  BY DEF create
<1>2. newKey(s) \in KeyRow
  BY DEF newKey, KeyRow
<1>3. \A j \in Key : key[j].of # s
  BY DEF create, created, Keys, KeysKnown
<1>4. \A j \in Key \ {k} : key'[j] = key[j]
  BY <1>1 DEF Keys
<1>5. key' \in [Key -> KeyRow] /\ key'[k] = newKey(s)
  BY <1>1, <1>2 DEF Keys
<1> QED BY <1>1, <1>3, <1>4, <1>5, IssueKeeps

LEMMA RevokedType ==
  ASSUME NEW row \in KeyRow
  PROVE  revoked(row) \in KeyRow /\ revoked(row).of = row.of /\ revoked(row).status = "revoked"
<1> DEFINE A == [row EXCEPT !.status = "revoked"]
<1>1. A \in KeyRow /\ A.of = row.of /\ A.status = "revoked"
  BY DEF KeyRow
<1>2. revoked(row) = [A EXCEPT !.until = 0]
  BY DEF revoked
<1> HIDE DEF A
<1> QED BY <1>1, <1>2 DEF KeyRow

\* Rotation retires every active key of the stream, and no key in grace.
LEMMA RotateKeeps ==
  ASSUME Keys, Grows, NEW s \in Stream, NEW grace \in 0..1, rotateKey(s, grace),
         definition'[s].state # "none"
  PROVE  KeysKeep
<1> DEFINE retired(j) == IF grace = 0 THEN revoked(key[j])
                         ELSE [key[j] EXCEPT !.status = "grace", !.until = now + grace]
<1>1. PICK k \in Key :
        /\ issued(k)
        /\ key' = [j \in Key |-> IF j = k THEN newKey(s)
                                ELSE IF j \notin activeKeys(s) THEN key[j] ELSE retired(j)]
  BY DEF rotateKey
<1>2. newKey(s) \in KeyRow
  BY DEF newKey, KeyRow
<1>3. ASSUME NEW j \in Key
      PROVE  retired(j) \in KeyRow /\ retired(j).of = key[j].of /\ retired(j).status # "active"
  <2>1. key[j] \in KeyRow /\ now + grace \in Int
    BY DEF Keys
  <2>2. [key[j] EXCEPT !.status = "grace", !.until = now + grace] \in KeyRow
    BY <2>1 DEF KeyRow
  <2> QED BY <2>1, <2>2, RevokedType DEF KeyRow
<1> HIDE DEF retired
<1>4. key' \in [Key -> KeyRow] /\ key'[k] = newKey(s)
  BY <1>1, <1>2, <1>3 DEF Keys
<1>5. \A j \in Key \ {k} : key'[j] = IF j \notin activeKeys(s) THEN key[j] ELSE retired(j)
  BY <1>1
<1>6. \A j \in Key \ {k} : key'[j].of = key[j].of /\
        (key'[j].status = "active" => key[j].status = "active" /\ key[j].of # s)
  BY <1>3, <1>5 DEF activeKeys, keysOf
<1>7. \A j \in Key \ {k} : key[j].status = "grace" => key'[j] = key[j]
  BY <1>5 DEF activeKeys, keysOf
<1> QED BY <1>1, <1>4, <1>6, <1>7, IssueKeeps

\* The coordinator takes a key only when its grace is over.
LEMMA RevokeKeeps ==
  ASSUME Keys, Grows, NEW k \in Key, k \in expiredGrace, revokeKey(k)
  PROVE  KeysKeep
<1>1. key[k] \in KeyRow /\ key' = [key EXCEPT ![k] = revoked(key[k])]
  BY DEF Keys, revokeKey
<1>2. /\ key' \in [Key -> KeyRow] /\ key'[k].of = key[k].of /\ key'[k].status = "revoked"
      /\ \A j \in Key \ {k} : key'[j] = key[j]
  BY <1>1, RevokedType DEF Keys
<1>3. OneActiveKey'
  BY <1>2 DEF Keys, OneActiveKey, activeKeys, keysOf
<1>4. KeysKnown'
  BY <1>2 DEF Keys, KeysKnown, Grows, KeyRow
<1>5. GraceStep
  BY <1>1, <1>2 DEF GraceStep, expiredGrace, Keys, KeyRow
<1> QED BY <1>2, <1>3, <1>4, <1>5 DEF KeysKeep

LEMMA ArchiveKeysKeep ==
  ASSUME Keys, Grows, NEW s \in Stream, archive(s), definition'[s].state = "archived"
  PROVE  KeysKeep
<1>1. key' = [k \in Key |-> IF k \in activeKeys(s) \cup keysOf(s, "grace")
                            THEN revoked(key[k]) ELSE key[k]]
  BY DEF archive
<1>2. ASSUME NEW k \in Key
      PROVE  /\ key'[k] \in KeyRow /\ key'[k].of = key[k].of
             /\ key'[k].status = "active" => key[k].status = "active"
             /\ key'[k] # key[k] => key[k].of = s
  <2>1. key[k] \in KeyRow
    BY DEF Keys
  <2> QED BY <1>1, <2>1, RevokedType DEF activeKeys, keysOf
<1>3. key' \in [Key -> KeyRow]
  BY <1>1, <1>2
<1>4. OneActiveKey'
  BY <1>2 DEF Keys, OneActiveKey, activeKeys, keysOf
<1>5. KeysKnown'
  BY <1>2 DEF Keys, KeysKnown, Grows, KeyRow
<1>6. GraceStep
  BY <1>2 DEF GraceStep
<1> QED BY <1>3, <1>4, <1>5, <1>6 DEF KeysKeep

-----------------------------------------------------------------------------
(* Requests                                                                *)

Everything == TypeOK /\ SlotHeldOnce /\ Keys /\ Requests

LEMMA Parts ==
  ASSUME Everything
  PROVE  /\ definition \in [Stream -> Definition] /\ SlotHeldOnce /\ Keys
         /\ session \in [Stream -> {"none", "open", "ending"}] /\ now \in 0..MaxNow
         /\ request \in [Caller -> Request] /\ publish \in Publish /\ asked \in 0..MaxRequests
         /\ Requests
  BY DEF Everything, TypeOK, StoreTypeOK, ApiTypeOK

\* What a step of a request, a publish or the coordinator leaves.
Kept ==
  /\ DefinitionsKeep /\ KeysKeep
  /\ session' \in [Stream -> {"none", "open", "ending"}] /\ now' \in 0..MaxNow
  /\ request' \in [Caller -> Request] /\ publish' \in Publish /\ asked' \in 0..MaxRequests
  /\ Requests'

\* A request that is made or goes on, to r.
Sound(r) ==
  /\ r \in Request
  /\ r.step # "idle" =>
       /\ r.of \in Stream /\ definition'[r.of].state # "none"
       /\ r.mirror = "on" => definition'[r.of].slots # {} \/ r.direct

LEMMA GoesKeeps ==
  ASSUME Everything, Grows, NEW c \in Caller, NEW r, Goes(c, r), Sound(r)
  PROVE  request' \in [Caller -> Request] /\ Requests'
<1>1. request \in [Caller -> Request] /\ Requests
  BY Parts
<1>2. /\ request' \in [Caller -> Request] /\ request'[c] = r
      /\ \A d \in Caller \ {c} : request'[d] = request[d]
  BY <1>1 DEF Goes, Sound
<1>3. ASSUME NEW d \in Caller, request'[d].step # "idle"
      PROVE  /\ request'[d].of \in Stream /\ definition'[request'[d].of].state # "none"
             /\ request'[d].mirror = "on" => definition'[request'[d].of].slots # {} \/ request'[d].direct
  <2>1. CASE d = c
    <3>1. request'[d] = r /\ r.step # "idle"
      BY <1>2, <1>3, <2>1
    <3> QED BY <3>1 DEF Sound
  <2>2. CASE d # c
    <3>1. request'[d] = request[d] /\ request[d].step # "idle"
      BY <1>2, <1>3, <2>2
    <3>2. /\ request[d].of \in Stream /\ definition[request[d].of].state # "none"
          /\ request[d].mirror = "on" => definition[request[d].of].slots # {} \/ request[d].direct
      BY <1>1, <3>1 DEF Requests, At, Of
    <3> QED BY <3>1, <3>2 DEF Grows
  <2> QED BY <2>1, <2>2
<1> QED BY <1>2, <1>3 DEF Requests, At, Of

LEMMA OthersKeep ==
  ASSUME Everything, Grows, request' = request
  PROVE  request' \in [Caller -> Request] /\ Requests'
  BY Parts DEF Requests, At, Of, Grows

LEMMA IdleSound == Sound(Idle) /\ Idle \in Request /\ Idle.step = "idle" /\ Idle.mirror = "same"
  BY DEF Sound, Idle, Request

\* A request that only reads, or does nothing any more.
LEMMA ReadsKeep ==
  ASSUME Everything, NEW c \in Caller, NEW r, Goes(c, r), Sound(r),
         UNCHANGED <<definition, key>>,
         session' \in [Stream -> {"none", "open", "ending"}], now' = now,
         publish' = publish, asked' \in 0..MaxRequests
  PROVE  Kept
<1>1. DefinitionsKeep
  BY Parts, SameDefinitions
<1>2. KeysKeep
  BY <1>1, Parts, SameKeys DEF DefinitionsKeep
<1> QED BY <1>1, <1>2, Parts, GoesKeeps DEF Kept, DefinitionsKeep

\* The step a request is at, and its stream.
LEMMA Holds ==
  ASSUME Everything, NEW c \in Caller, ~At(c, "idle")
  PROVE  /\ request[c] \in Request /\ Of(c) \in Stream /\ definition[Of(c)].state # "none"
         /\ request[c].mirror = "on" => definition[Of(c)].slots # {} \/ request[c].direct
  BY Parts DEF Requests

LEMMA Fresh ==
  ASSUME NEW s \in Stream, NEW step \in {"linking", "archiving", "openFor"},
         definition'[s].state # "none"
  PROVE  Sound([Idle EXCEPT !.step = step, !.of = s])
<1> DEFINE A == [Idle EXCEPT !.step = step]
           r == [A EXCEPT !.of = s]
<1>1. A \in Request /\ A.mirror = "same"
  BY IdleSound DEF Request
<1> HIDE DEF A
<1>2. r \in Request /\ r.mirror = "same" /\ r.of = s
  BY <1>1 DEF Request
<1>3. r = [Idle EXCEPT !.step = step, !.of = s]
  BY DEF A
<1> HIDE DEF r
<1> QED BY <1>2, <1>3 DEF Sound

-----------------------------------------------------------------------------
(* Steps of the requests                                                   *)

LEMMA PostStreamKeeps == ASSUME Everything, NEW c \in Caller, PostStream(c) PROVE Kept
<1>1. PICK s \in Stream, mirror \in BOOLEAN, slots \in {{}} \cup {{m} : m \in Slot}, link \in BOOLEAN :
        /\ create(s, mirror, slots)
        /\ Goes(c, IF link THEN [Idle EXCEPT !.step = "linking", !.of = s] ELSE Idle)
  BY DEF PostStream
<1>2. DefinitionsKeep /\ definition'[s].state = "active"
  BY <1>1, Parts, CreateKeeps
<1>3. KeysKeep
  BY <1>1, <1>2, Parts, CreateKeysKeep DEF DefinitionsKeep
<1>4. Sound(IF link THEN [Idle EXCEPT !.step = "linking", !.of = s] ELSE Idle)
  BY <1>2, Fresh, IdleSound
<1>5. asked' \in 0..MaxRequests
  BY Parts DEF PostStream, Asks
<1> QED BY <1>1, <1>2, <1>3, <1>4, <1>5, Parts, GoesKeeps DEF Kept, DefinitionsKeep, PostStream

LEMMA PatchStreamKeeps == ASSUME Everything, NEW c \in Caller, PatchStream(c) PROVE Kept
<1>1. PICK s \in Stream, mirror \in {"same", "on", "off"}, state \in {"same", "active", "disabled"},
           linkable \in BOOLEAN :
        LET linkNow == linkable /\ mirror = "on" /\ definition[s].slots = {} IN
        /\ Arrives(c, s)
        /\ Goes(c, [Idle EXCEPT !.step = "reading", !.of = s, !.state = state,
                      !.mirror = IF linkNow THEN "same" ELSE mirror, !.link = linkNow,
                      !.direct = mirror = "on" /\ ~linkable])
  BY DEF PatchStream
<1> DEFINE linkNow == linkable /\ mirror = "on" /\ definition[s].slots = {}
           m == IF linkNow THEN "same" ELSE mirror
           plain == mirror = "on" /\ ~linkable
           A == [Idle EXCEPT !.step = "reading", !.of = s]
           B == [A EXCEPT !.state = state]
           C == [B EXCEPT !.mirror = m]
           D == [C EXCEPT !.link = linkNow]
           r == [D EXCEPT !.direct = plain]
<1>2. Goes(c, r)
  BY <1>1
<1>3. /\ linkNow \in BOOLEAN /\ plain \in BOOLEAN /\ m \in {"same", "on", "off"}
      /\ m = "on" => definition[s].slots # {} \/ plain
  OBVIOUS
<1>4. definition[s].state # "none" /\ asked' \in 0..MaxRequests
  BY <1>1, Parts DEF Arrives, Present, Asks
<1> HIDE DEF linkNow, m, plain
<1>5. A \in Request /\ A.of = s
  <2>1. [Idle EXCEPT !.step = "reading"] \in Request
    BY IdleSound DEF Request
  <2> QED BY <2>1 DEF Request
<1> HIDE DEF A
<1>6. B \in Request /\ B.of = s
  BY <1>5 DEF Request
<1> HIDE DEF B
<1>7. C \in Request /\ C.of = s /\ C.mirror = m
  BY <1>3, <1>6 DEF Request
<1> HIDE DEF C
<1>8. D \in Request /\ D.of = s /\ D.mirror = m
  BY <1>3, <1>7 DEF Request
<1> HIDE DEF D
<1>9. r \in Request /\ r.of = s /\ r.mirror = m /\ r.direct = plain
  BY <1>3, <1>8 DEF Request
<1> HIDE DEF r
<1>10. UNCHANGED <<store, publish>>
  BY DEF PatchStream
<1>11. Sound(r)
  BY <1>3, <1>4, <1>9, <1>10 DEF Sound, store
<1> QED BY <1>2, <1>4, <1>10, <1>11, Parts, ReadsKeep DEF store

\* The last update of a link.
LEMMA MirrorSound ==
  ASSUME NEW c \in Caller, Of(c) \in Stream, definition'[Of(c)].state # "none",
         NEW to \in {"on", "off"}, to = "on" => definition'[Of(c)].slots # {}
  PROVE  Sound([Idle EXCEPT !.step = "reading", !.of = Of(c), !.mirror = to])
<1> DEFINE A == [Idle EXCEPT !.step = "reading"]
           B == [A EXCEPT !.of = Of(c)]
           r == [B EXCEPT !.mirror = to]
<1>1. A \in Request
  BY IdleSound DEF Request
<1> HIDE DEF A
<1>2. B \in Request /\ B.of = Of(c)
  BY <1>1 DEF Request
<1> HIDE DEF B
<1>3. r \in Request /\ r.of = Of(c) /\ r.mirror = to
  BY <1>2 DEF Request
<1>4. r = [Idle EXCEPT !.step = "reading", !.of = Of(c), !.mirror = to]
  BY DEF A, B
<1> HIDE DEF r
<1> QED BY <1>3, <1>4 DEF Sound

LEMMA UpdateReadsKeeps == ASSUME Everything, NEW c \in Caller, UpdateReads(c) PROVE Kept
<1> DEFINE r == request[c]
<1>1. /\ r \in Request /\ Of(c) \in Stream /\ definition[Of(c)].state # "none"
      /\ r.mirror = "on" => definition[Of(c)].slots # {} \/ r.direct
  BY Holds DEF UpdateReads, At
<1>2. UNCHANGED <<store, publish, asked>>
  BY DEF UpdateReads
<1>3. \/ Goes(c, Idle)
      \/ Goes(c, [r EXCEPT !.step = "writing"])
      \/ Goes(c, [Idle EXCEPT !.step = "linking", !.of = Of(c)])
  BY DEF UpdateReads, Of
<1>4. Sound([r EXCEPT !.step = "writing"])
  BY <1>1, <1>2 DEF Sound, Request, Of, store
<1>5. Sound([Idle EXCEPT !.step = "linking", !.of = Of(c)])
  BY <1>1, <1>2, Fresh DEF store
<1> HIDE DEF r
<1> QED BY <1>2, <1>3, <1>4, <1>5, IdleSound, Parts, ReadsKeep DEF store

LEMMA UpdateWritesKeeps == ASSUME Everything, NEW c \in Caller, UpdateWrites(c) PROVE Kept
<1>1. /\ request[c] \in Request /\ Of(c) \in Stream /\ definition[Of(c)].state # "none"
      /\ request[c].mirror = "on" => definition[Of(c)].slots # {} \/ request[c].direct
  BY Holds DEF UpdateWrites, At
<1>2. update(Of(c), request[c].mirror, request[c].state)
  BY DEF UpdateWrites
<1>3. request[c].mirror \in {"same", "on", "off"} /\ request[c].state \in {"same", "active", "disabled"}
  BY <1>1 DEF Request
<1>4. request[c].direct => WrittenAsAsked(Of(c))
  <2>1. At(c, "writing") /\ request' = [request EXCEPT ![c] =
          IF request[c].link THEN [Idle EXCEPT !.step = "linking", !.of = Of(c)] ELSE Idle]
    BY DEF UpdateWrites, Goes
  <2>2. request'[c].step \in {"linking", "idle"} /\ request[c].step = "writing"
    BY <2>1, Parts, IdleSound DEF At, Request
  <2> QED BY <2>1, <2>2 DEF WrittenAsAsked
<1>5. DefinitionsKeep
  BY <1>1, <1>2, <1>3, <1>4, Parts, UpdateKeeps
<1>6. KeysKeep
  BY <1>5, Parts, SameKeys DEF DefinitionsKeep, UpdateWrites
<1>7. definition'[Of(c)].state # "none"
  BY <1>1, <1>5 DEF DefinitionsKeep, Grows
<1>8. Sound(IF request[c].link THEN [Idle EXCEPT !.step = "linking", !.of = Of(c)] ELSE Idle)
  BY <1>1, <1>7, Fresh, IdleSound
<1>9. Goes(c, IF request[c].link THEN [Idle EXCEPT !.step = "linking", !.of = Of(c)] ELSE Idle)
  BY DEF UpdateWrites
<1> QED BY <1>5, <1>6, <1>8, <1>9, Parts, GoesKeeps DEF Kept, DefinitionsKeep, UpdateWrites

LEMMA LinkReadsKeeps == ASSUME Everything, NEW c \in Caller, LinkReads(c) PROVE Kept
<1>1. /\ request[c] \in Request /\ Of(c) \in Stream /\ definition[Of(c)].state # "none"
      /\ request[c].mirror = "on" => definition[Of(c)].slots # {} \/ request[c].direct
  BY Holds DEF LinkReads, At
<1>2. UNCHANGED <<store, publish, asked>>
  BY DEF LinkReads
<1> DEFINE r == [request[c] EXCEPT !.step = "binding", !.seen = definition[Of(c)].mirror]
<1>3. \/ Goes(c, r) \/ Goes(c, Idle)
      \/ definition[Of(c)].slots # {} /\
         Goes(c, [Idle EXCEPT !.step = "reading", !.of = Of(c), !.mirror = "on"])
  BY DEF LinkReads, Done, ThenMirror
<1>4. Sound(r)
  <2> DEFINE A == [request[c] EXCEPT !.step = "binding"]
  <2>1. definition[Of(c)].mirror \in BOOLEAN
    BY <1>1, Parts DEF Definition
  <2>2. A \in Request /\ A.of = Of(c) /\ A.mirror = request[c].mirror /\ A.direct = request[c].direct
    BY <1>1 DEF Request, Of
  <2>3. r = [A EXCEPT !.seen = definition[Of(c)].mirror]
    OBVIOUS
  <2> HIDE DEF A
  <2>4. r \in Request /\ r.of = Of(c) /\ r.mirror = request[c].mirror /\ r.direct = request[c].direct
    BY <2>1, <2>2, <2>3 DEF Request
  <2> HIDE DEF r
  <2> QED BY <1>1, <1>2, <2>4 DEF Sound, store
<1> HIDE DEF r
<1>5. definition[Of(c)].slots # {} => Sound([Idle EXCEPT !.step = "reading", !.of = Of(c), !.mirror = "on"])
  BY <1>1, <1>2, MirrorSound DEF store
<1> QED BY <1>2, <1>3, <1>4, <1>5, IdleSound, Parts, ReadsKeep DEF store

LEMMA BindKeeps == ASSUME Everything, NEW c \in Caller, Bind(c) PROVE Kept
<1>1. /\ request[c] \in Request /\ Of(c) \in Stream /\ definition[Of(c)].state # "none"
      /\ request[c].mirror = "on" => definition[Of(c)].slots # {} \/ request[c].direct
  BY Holds DEF Bind, At
<1>2. UNCHANGED <<store, publish, asked>>
  BY DEF Bind
<1>3. CASE \E slot \in Slot : Goes(c, [request[c] EXCEPT !.step = "bound", !.slots = {slot}])
  <2>1. PICK slot \in Slot : Goes(c, [request[c] EXCEPT !.step = "bound", !.slots = {slot}])
    BY <1>3
  <2> DEFINE A == [request[c] EXCEPT !.step = "bound"]
             r == [A EXCEPT !.slots = {slot}]
  <2>2. A \in Request /\ A.of = Of(c) /\ A.mirror = request[c].mirror /\ A.direct = request[c].direct
    BY <1>1 DEF Request, Of
  <2>3. Goes(c, r)
    BY <2>1
  <2> HIDE DEF A
  <2>4. r \in Request /\ r.of = Of(c) /\ r.mirror = request[c].mirror /\ r.direct = request[c].direct
    BY <2>2 DEF Request
  <2> HIDE DEF r
  <2>5. Sound(r)
    BY <1>1, <1>2, <2>4 DEF Sound, store
  <2> QED BY <1>2, <2>3, <2>5, Parts, ReadsKeep DEF store
<1>4. CASE Goes(c, [Idle EXCEPT !.step = "reading", !.of = Of(c), !.mirror = "off"])
  <2>1. Sound([Idle EXCEPT !.step = "reading", !.of = Of(c), !.mirror = "off"])
    BY <1>1, <1>2, MirrorSound DEF store
  <2> QED BY <1>2, <1>4, <2>1, Parts, ReadsKeep DEF store
<1>5. CASE Goes(c, Idle)
  BY <1>2, <1>5, IdleSound, Parts, ReadsKeep DEF store
<1> QED BY <1>3, <1>4, <1>5 DEF Bind, ThenMirror, Done

LEMMA LinkRecordsKeeps == ASSUME Everything, NEW c \in Caller, LinkRecords(c) PROVE Kept
<1>1. /\ request[c] \in Request /\ Of(c) \in Stream /\ definition[Of(c)].state # "none"
      /\ request[c].mirror = "on" => definition[Of(c)].slots # {} \/ request[c].direct
  BY Holds DEF LinkRecords, At
<1>2. UNCHANGED <<key, session, now, publish, asked>>
  BY DEF LinkRecords
<1>3. PICK slot \in request[c].slots :
        IF addRefRefused(Of(c), slot) THEN Done(c) /\ UNCHANGED definition
        ELSE addRef(Of(c), slot) /\ ThenMirror(c, "on")
  BY DEF LinkRecords
<1>4. CASE addRefRefused(Of(c), slot)
  BY <1>2, <1>3, <1>4, IdleSound, Parts, ReadsKeep DEF Done
<1>5. CASE ~addRefRefused(Of(c), slot)
  <2>1. slot \in Slot
    BY <1>1, <1>3 DEF Request
  <2>2. DefinitionsKeep /\ definition'[Of(c)].slots # {}
    BY <1>1, <1>3, <1>5, <2>1, Parts, AddRefKeeps
  <2>3. KeysKeep
    BY <1>2, <2>2, Parts, SameKeys DEF DefinitionsKeep
  <2>4. definition'[Of(c)].state # "none"
    BY <1>1, <2>2 DEF DefinitionsKeep, Grows
  <2>5. Sound([Idle EXCEPT !.step = "reading", !.of = Of(c), !.mirror = "on"])
    BY <1>1, <2>2, <2>4, MirrorSound
  <2>6. Goes(c, [Idle EXCEPT !.step = "reading", !.of = Of(c), !.mirror = "on"])
    BY <1>3, <1>5 DEF ThenMirror
  <2> QED BY <1>2, <2>2, <2>3, <2>5, <2>6, Parts, GoesKeeps DEF Kept, DefinitionsKeep
<1> QED BY <1>4, <1>5

LEMMA DeleteStreamKeeps == ASSUME Everything, NEW c \in Caller, DeleteStream(c) PROVE Kept
<1>1. PICK s \in Stream : Arrives(c, s) /\ Goes(c, [Idle EXCEPT !.step = "archiving", !.of = s])
  BY DEF DeleteStream
<1>2. UNCHANGED <<store, publish>> /\ asked' \in 0..MaxRequests /\ definition'[s].state # "none"
  BY <1>1, Parts DEF DeleteStream, Arrives, Present, Asks, store
<1> QED BY <1>1, <1>2, Fresh, Parts, ReadsKeep DEF store

LEMMA ArchivesKeeps == ASSUME Everything, NEW c \in Caller, Archive(c) PROVE Kept
<1>1. Of(c) \in Stream /\ archive(Of(c)) /\ Goes(c, Idle) /\ UNCHANGED <<session, now, publish, asked>>
  BY Holds DEF Archive, At, Done
<1>2. DefinitionsKeep /\ definition'[Of(c)].state = "archived"
  BY <1>1, Parts, ArchiveKeeps
<1>3. KeysKeep
  BY <1>1, <1>2, Parts, ArchiveKeysKeep DEF DefinitionsKeep
<1> QED BY <1>1, <1>2, <1>3, IdleSound, Parts, GoesKeeps DEF Kept, DefinitionsKeep

LEMMA PostRotateKeeps == ASSUME Everything, NEW c \in Caller, PostRotate(c) PROVE Kept
<1>1. PICK s \in Stream, grace \in 0..1, ending \in BOOLEAN :
        /\ Arrives(c, s)
        /\ Goes(c, [Idle EXCEPT !.step = "rotating", !.of = s, !.grace = grace, !.ending = ending])
  BY DEF PostRotate
<1>2. UNCHANGED <<store, publish>> /\ asked' \in 0..MaxRequests /\ definition'[s].state # "none"
  BY <1>1, Parts DEF PostRotate, Arrives, Present, Asks, store
<1> DEFINE A == [Idle EXCEPT !.step = "rotating"]
           B == [A EXCEPT !.of = s]
           C == [B EXCEPT !.grace = grace]
           r == [C EXCEPT !.ending = ending]
<1>3. Goes(c, r)
  BY <1>1
<1>4. A \in Request /\ A.mirror = "same"
  BY IdleSound DEF Request
<1> HIDE DEF A
<1>5. B \in Request /\ B.of = s /\ B.mirror = "same"
  BY <1>4 DEF Request
<1> HIDE DEF B
<1>6. C \in Request /\ C.of = s /\ C.mirror = "same"
  BY <1>5 DEF Request
<1> HIDE DEF C
<1>7. r \in Request /\ r.of = s /\ r.mirror = "same"
  BY <1>6 DEF Request
<1> HIDE DEF r
<1>8. Sound(r)
  BY <1>2, <1>7 DEF Sound
<1> QED BY <1>2, <1>3, <1>8, Parts, ReadsKeep DEF store

LEMMA RotatesKeeps == ASSUME Everything, NEW c \in Caller, Rotate(c) PROVE Kept
<1>1. /\ request[c] \in Request /\ Of(c) \in Stream /\ definition[Of(c)].state # "none"
  BY Holds DEF Rotate, At
<1>2. /\ rotateKey(Of(c), request[c].grace) /\ UNCHANGED <<definition, session, now, publish, asked>>
      /\ Goes(c, IF request[c].ending THEN [Idle EXCEPT !.step = "openFor", !.of = Of(c)] ELSE Idle)
  BY DEF Rotate
<1>3. DefinitionsKeep
  BY <1>2, Parts, SameDefinitions
<1>4. KeysKeep
  <2>1. request[c].grace \in 0..1
    BY <1>1 DEF Request
  <2> QED BY <1>1, <1>2, <1>3, <2>1, Parts, RotateKeeps DEF DefinitionsKeep
<1>5. Sound(IF request[c].ending THEN [Idle EXCEPT !.step = "openFor", !.of = Of(c)] ELSE Idle)
  BY <1>1, <1>2, Fresh, IdleSound
<1> QED BY <1>2, <1>3, <1>4, <1>5, Parts, GoesKeeps DEF Kept, DefinitionsKeep

LEMMA EndSessionsKeeps == ASSUME Everything, NEW c \in Caller, EndSessions(c) PROVE Kept
<1>1. /\ session' = [session EXCEPT ![Of(c)] = IF @ = "open" THEN "ending" ELSE @]
      /\ Goes(c, Idle) /\ UNCHANGED <<definition, key, now, publish, asked>>
  BY DEF EndSessions, Done
<1>2. session' \in [Stream -> {"none", "open", "ending"}]
  BY <1>1, Parts
<1> QED BY <1>1, <1>2, IdleSound, Parts, ReadsKeep

LEMMA AbortKeeps == ASSUME Everything, NEW c \in Caller, Abort(c) PROVE Kept
  BY IdleSound, Parts, ReadsKeep DEF Abort, Done, store

LEMMA RequestKeeps == ASSUME Everything, NEW c \in Caller, Request1(c) PROVE Kept
  BY PostStreamKeeps, PatchStreamKeeps, UpdateReadsKeeps, UpdateWritesKeeps, LinkReadsKeeps, BindKeeps,
     LinkRecordsKeeps, DeleteStreamKeeps, ArchivesKeeps, PostRotateKeeps, RotatesKeeps, EndSessionsKeeps,
     AbortKeeps
  DEF Request1

\* Everybody who holds nothing: publishes, the coordinator and time.
LEMMA QuietKeeps ==
  ASSUME Everything, definition' = definition, request' = request,
         session' \in [Stream -> {"none", "open", "ending"}], now' \in 0..MaxNow,
         publish' \in Publish, asked' \in 0..MaxRequests,
         key' = key \/ \E k \in expiredGrace : revokeKey(k)
  PROVE  Kept
<1>1. DefinitionsKeep
  BY Parts, SameDefinitions
<1>2. KeysKeep
  BY <1>1, Parts, SameKeys, RevokeKeeps DEF DefinitionsKeep, expiredGrace
<1> QED BY <1>1, <1>2, OthersKeep DEF Kept, DefinitionsKeep

LEMMA EncoderKeeps == ASSUME Everything, Encoder PROVE Kept
<1>1. CASE KeyRead
  BY <1>1, Parts, QuietKeeps DEF KeyRead, Asks, store, Publish
<1>2. CASE DefinitionRead
  BY <1>2, Parts, QuietKeeps DEF DefinitionRead, store, Publish, NoPublish
<1>3. CASE Admit
  BY <1>3, Parts, QuietKeeps DEF Admit, Publish, NoPublish
<1>4. CASE \E s \in Stream : SessionCloses(s)
  BY <1>4, Parts, QuietKeeps DEF SessionCloses, api
<1> QED BY <1>1, <1>2, <1>3, <1>4 DEF Encoder

LEMMA OthersStepKeeps == ASSUME Everything, ExpireGraceKeys \/ Tick PROVE Kept
<1>1. CASE ExpireGraceKeys
  BY <1>1, Parts, QuietKeeps DEF ExpireGraceKeys, ExpireGraceKey, api
<1>2. CASE Tick
  BY <1>2, Parts, QuietKeeps DEF Tick, api
<1> QED BY <1>1, <1>2

-----------------------------------------------------------------------------
(* The import                                                              *)

Imports == MigrationTypeOK /\ Copies
ImportsKeep == MigrationTypeOK' /\ Copies'

LEMMA ImportParts ==
  ASSUME Imports
  PROVE  /\ live \in Live /\ slotMap \in [status : Status, target : Stream \cup {NoStream}]
         /\ destMap \in 0..made /\ destMap \in Copy \cup {NoCopy} /\ made \in 0..MaxCopies
         /\ copies \subseteq Copy /\ copies \subseteq 1..made /\ IsFiniteSet(copies)
         /\ run \in Run /\ interruptions \in 0..MaxInterruptions
         /\ run.step \in {"copying", "copied"} => destMap \notin copies
         /\ run.step = "copied" => Cardinality(copies \ {made}) <= interruptions
         /\ run.step # "copied" => Cardinality(copies \ {destMap}) <= interruptions
<1>1. copies \subseteq 1..made /\ made \in Int
  BY DEF Imports, Copies, MigrationTypeOK
<1>2. IsFiniteSet(copies)
  <2>1. IsFiniteSet(1..made)
    BY <1>1, FS_Interval
  <2>2. copies \in SUBSET (1..made)
    BY <1>1
  <2> QED BY <2>1, <2>2, FS_Subset
<1> QED BY <1>2 DEF Imports, Copies, MigrationTypeOK

\* A run that is not about to make a copy, and did not make one.
LEMMA PlainRun ==
  ASSUME Imports, run.step # "copied", run' \in Run, run'.step \notin {"copying", "copied"},
         live' \in Live, slotMap' \in [status : Status, target : Stream \cup {NoStream}],
         UNCHANGED <<destMap, copies, made, interruptions>>
  PROVE  ImportsKeep
<1>1. Copies'
  BY ImportParts DEF Copies
<1>2. MigrationTypeOK'
  BY ImportParts DEF MigrationTypeOK
<1> QED BY <1>1, <1>2 DEF ImportsKeep

LEMMA NoRunType == NoRun \in Run /\ NoRun.step = "off"
  BY DEF NoRun, Run, Steps, Status

LEMMA EarlySteps ==
  ASSUME Imports, StartRun \/ Slot1 \/ Find \/ Create \/ Record \/ SignIn
  PROVE  ImportsKeep
<1>1. CASE StartRun
  <2>1. run' = [NoRun EXCEPT !.step = "slot"] /\ run'.step = "slot" /\ run' \in Run
    BY <1>1, NoRunType DEF StartRun, Run, Steps
  <2> QED BY <1>1, <2>1, ImportParts, PlainRun DEF StartRun, Runs
<1>2. CASE Slot1
  <2>1. CASE run' = [step |-> "destination", slot |-> "imported", target |-> slotMap.target] /\ UNCHANGED slotMap
    <3>1. run' \in Run /\ run'.step = "destination"
      BY <2>1, ImportParts DEF Run, Steps, Status
    <3> QED BY <1>2, <2>1, <3>1, ImportParts, PlainRun DEF Slot1, Runs
  <2>2. CASE run' = [run EXCEPT !.step = "finding"] /\ UNCHANGED slotMap
    <3>1. run' \in Run /\ run'.step = "finding"
      BY <2>2, ImportParts DEF Run, Steps
    <3> QED BY <1>2, <2>2, <3>1, ImportParts, PlainRun DEF Slot1, Runs
  <2>3. ASSUME NEW status \in {"excluded", "held"},
               slotMap' = [status |-> status, target |-> NoStream],
               run' = [step |-> "destination", slot |-> status, target |-> NoStream]
        PROVE  ImportsKeep
    <3>1. run' \in Run /\ run'.step = "destination"
      BY <2>3 DEF Run, Steps, Status
    <3>2. slotMap' \in [status : Status, target : Stream \cup {NoStream}]
      BY <2>3 DEF Status
    <3> QED BY <1>2, <3>1, <3>2, ImportParts, PlainRun DEF Slot1, Runs
  <2> QED BY <1>2, <2>1, <2>2, <2>3 DEF Slot1
<1>3. CASE Find
  <2>1. \/ run' = [run EXCEPT !.step = "creating"]
        \/ \E s \in Stream : run' = [run EXCEPT !.step = "recording", !.target = s]
    BY <1>3 DEF Find, holders
  <2>2. run' \in Run /\ run'.step \in {"creating", "recording"}
    BY <2>1, ImportParts DEF Run, Steps
  <2> QED BY <1>3, <2>2, ImportParts, PlainRun DEF Find, Runs
<1>4. CASE Create
  <2>1. \/ run' = NoRun
        \/ \E s \in Stream : run' = [run EXCEPT !.step = "recording", !.target = s]
    BY <1>4 DEF Create
  <2>2. run' \in Run /\ run'.step \in {"off", "recording"}
    BY <2>1, NoRunType, ImportParts DEF Run, Steps
  <2> QED BY <1>4, <2>2, ImportParts, PlainRun DEF Create, Runs
<1>5. CASE Record
  <2>1. run' = [run EXCEPT !.step = "destination", !.slot = "imported"]
    BY <1>5 DEF Record
  <2>2. run' \in Run /\ run'.step = "destination"
    BY <2>1, ImportParts DEF Run, Steps, Status
  <2>3. slotMap' \in [status : Status, target : Stream \cup {NoStream}]
    BY <1>5, ImportParts DEF Record, Run, Status
  <2> QED BY <1>5, <2>2, <2>3, ImportParts, PlainRun DEF Record, Runs
<1>6. CASE SignIn
  <2>1. live' \in Live
    BY <1>6, ImportParts DEF SignIn, Live
  <2>2. MigrationTypeOK'
    BY <1>6, <2>1, ImportParts DEF SignIn, MigrationTypeOK
  <2>3. Copies'
    BY <1>6 DEF SignIn, Imports, Copies
  <2> QED BY <2>2, <2>3 DEF ImportsKeep
<1> QED BY <1>1, <1>2, <1>3, <1>4, <1>5, <1>6

LEMMA CopySteps ==
  ASSUME Imports, Destination \/ CopyDestination \/ RecordCopy
  PROVE  ImportsKeep
<1>1. CASE Destination
  <2>1. CASE destMap \in copies
    BY <1>1, <2>1, NoRunType, ImportParts, PlainRun DEF Destination, Runs
  <2>2. CASE destMap \notin copies /\ run' = [run EXCEPT !.step = "copying"] /\ UNCHANGED destMap
    <3>1. run' \in Run /\ run'.step = "copying" /\ run.step = "destination"
      BY <1>1, <2>2, ImportParts DEF Run, Steps, Destination, Runs
    <3>2. Copies'
      BY <1>1, <2>2, <3>1, ImportParts DEF Copies, Destination
    <3>3. MigrationTypeOK'
      BY <1>1, <2>2, <3>1, ImportParts DEF MigrationTypeOK, Destination
    <3> QED BY <3>2, <3>3 DEF ImportsKeep
  <2>3. CASE destMap \notin copies /\ run' = NoRun /\ destMap' = NoCopy
    <3>1. run.step = "destination" /\ UNCHANGED <<live, slotMap, copies, made, interruptions>>
      BY <1>1 DEF Destination, Runs
    <3>2. copies \ {NoCopy} = copies /\ copies \ {destMap} = copies
      BY <2>3, ImportParts
    <3>3. Copies'
      BY <2>3, <3>1, <3>2, NoRunType, ImportParts DEF Copies
    <3>4. MigrationTypeOK'
      BY <2>3, <3>1, NoRunType, ImportParts DEF MigrationTypeOK
    <3> QED BY <3>3, <3>4 DEF ImportsKeep
  <2> QED BY <1>1, <2>1, <2>2, <2>3 DEF Destination
<1>2. CASE CopyDestination
  <2>1. run.step = "copying" /\ UNCHANGED <<live, slotMap, destMap, interruptions>>
    BY <1>2 DEF CopyDestination, Runs
  <2>2. CASE run' = NoRun /\ UNCHANGED <<copies, made>>
    BY <2>1, <2>2, NoRunType, ImportParts, PlainRun
  <2>3. CASE /\ made < MaxCopies /\ made' = made + 1 /\ copies' = copies \cup {made + 1}
             /\ run' = [run EXCEPT !.step = "copied"]
    <3>1. run' \in Run /\ run'.step = "copied"
      BY <2>3, ImportParts DEF Run, Steps
    <3>2. copies' \ {made'} = copies /\ copies \ {destMap} = copies
      BY <2>1, <2>3, ImportParts
    <3>3. copies' \subseteq 1..made' /\ destMap' \in 0..made' /\ destMap' \notin copies'
      BY <2>1, <2>3, ImportParts
    <3>4. Copies'
      BY <2>1, <3>1, <3>2, <3>3, ImportParts DEF Copies
    <3>5. MigrationTypeOK'
      BY <2>1, <2>3, <3>1, ImportParts DEF MigrationTypeOK
    <3> QED BY <3>4, <3>5 DEF ImportsKeep
  <2> QED BY <1>2, <2>2, <2>3 DEF CopyDestination, createDestination
<1>3. CASE RecordCopy
  <2>1. run.step = "copied" /\ destMap' = made /\ run' = NoRun
        /\ UNCHANGED <<live, slotMap, copies, made, interruptions>>
    BY <1>3 DEF RecordCopy, Runs
  <2>2. Copies'
    BY <2>1, NoRunType, ImportParts DEF Copies
  <2>3. MigrationTypeOK'
    BY <2>1, NoRunType, ImportParts DEF MigrationTypeOK
  <2> QED BY <2>2, <2>3 DEF ImportsKeep
<1> QED BY <1>1, <1>2, <1>3

\* An interruption forgets the copy the run was about to record, and no other.
LEMMA InterruptKeeps == ASSUME Imports, Interrupt PROVE ImportsKeep
<1>1. /\ run' = NoRun /\ interruptions' = interruptions + 1 /\ interruptions < MaxInterruptions
      /\ UNCHANGED <<live, slotMap, destMap, copies, made>>
  BY DEF Interrupt
<1>2. Cardinality(copies \ {destMap}) <= interruptions + 1
  <2>1. CASE run.step = "copied"
    <3>1. copies \ {destMap} = copies
      BY <2>1, ImportParts
    <3>2. IsFiniteSet(copies) /\ IsFiniteSet(copies \ {made})
      BY ImportParts, FS_RemoveElement
    <3>3. Cardinality(copies \ {made}) \in Nat /\ Cardinality(copies) \in Nat
      BY <3>2, FS_CardinalityType
    <3>4. Cardinality(copies \ {made})
            = IF made \in copies THEN Cardinality(copies) - 1 ELSE Cardinality(copies)
      BY <3>2, FS_RemoveElement
    <3>5. Cardinality(copies) <= Cardinality(copies \ {made}) + 1
      BY <3>3, <3>4
    <3> QED BY <2>1, <3>1, <3>3, <3>5, ImportParts
  <2>2. CASE run.step # "copied"
    <3>1. Cardinality(copies \ {destMap}) \in Nat
      BY ImportParts, FS_RemoveElement, FS_CardinalityType
    <3> QED BY <2>2, <3>1, ImportParts
  <2> QED BY <2>1, <2>2
<1>3. Copies'
  BY <1>1, <1>2, NoRunType, ImportParts DEF Copies
<1>4. MigrationTypeOK'
  BY <1>1, NoRunType, ImportParts DEF MigrationTypeOK
<1> QED BY <1>3, <1>4 DEF ImportsKeep

LEMMA DeleteCopyKeeps == ASSUME Imports, DeleteCopy PROVE ImportsKeep
<1>1. PICK d \in copies : copies' = copies \ {d}
  BY DEF DeleteCopy
<1>2. UNCHANGED <<live, slotMap, destMap, made, run, interruptions>>
  BY DEF DeleteCopy
<1> DEFINE named == IF run.step = "copied" THEN made ELSE destMap
<1>3. Cardinality(copies' \ {named}) <= interruptions
  <2>1. IsFiniteSet(copies \ {named}) /\ copies' \ {named} \in SUBSET (copies \ {named})
    BY <1>1, ImportParts, FS_RemoveElement
  <2>2. /\ Cardinality(copies' \ {named}) <= Cardinality(copies \ {named})
        /\ Cardinality(copies' \ {named}) \in Nat /\ Cardinality(copies \ {named}) \in Nat
    BY <2>1, FS_Subset, FS_CardinalityType
  <2>3. Cardinality(copies \ {named}) <= interruptions
    BY ImportParts
  <2> HIDE DEF named
  <2> QED BY <2>2, <2>3, ImportParts
<1>4. Copies'
  BY <1>1, <1>2, <1>3, ImportParts DEF Copies
<1>5. MigrationTypeOK'
  BY <1>1, <1>2, ImportParts DEF MigrationTypeOK
<1> QED BY <1>4, <1>5 DEF ImportsKeep

LEMMA ImportsSame == ASSUME Imports, UNCHANGED migration PROVE ImportsKeep
  BY DEF Imports, ImportsKeep, migration, MigrationTypeOK, Copies

\* What the import does to the store: nothing, or a stream of its own.
LEMMA MigrateKeeps == ASSUME Everything, Migrate PROVE Kept
<1>1. CASE Create
  <2>1. CASE UNCHANGED <<definition, key>>
    BY <1>1, <2>1, Parts, QuietKeeps DEF Create
  <2>2. CASE \E s \in Stream : create(s, TRUE, {Imported})
    <3>1. PICK s \in Stream : create(s, TRUE, {Imported})
      BY <2>2
    <3>2. DefinitionsKeep /\ definition'[s].state = "active"
      BY <3>1, Parts, CreateKeeps
    <3>3. KeysKeep
      BY <3>1, <3>2, Parts, CreateKeysKeep DEF DefinitionsKeep
    <3>4. UNCHANGED <<session, now, request, publish, asked>>
      BY <1>1 DEF Create
    <3> QED BY <3>2, <3>3, <3>4, Parts, OthersKeep DEF Kept, DefinitionsKeep
  <2> QED BY <1>1, <2>1, <2>2 DEF Create
<1>2. CASE StartRun \/ DeleteCopy
  <2>1. definition' = definition /\ Asks /\ Elsewhere
    BY <1>2 DEF StartRun, DeleteCopy
  <2> QED BY <2>1, Parts, QuietKeeps DEF Asks, Elsewhere
<1>3. CASE Slot1 \/ Find \/ Record \/ Destination \/ CopyDestination \/ RecordCopy \/ Interrupt \/ SignIn
  <2>1. UNCHANGED <<definition, asked>> /\ Elsewhere
    BY <1>3 DEF Slot1, Find, Record, Destination, CopyDestination, RecordCopy, Interrupt, SignIn
  <2> QED BY <2>1, Parts, QuietKeeps DEF Elsewhere
<1> QED BY <1>1, <1>2, <1>3 DEF Migrate

-----------------------------------------------------------------------------
(* Theorems                                                                *)

LEMMA Divides == ASSUME IInv PROVE Everything /\ Imports
  BY DEF IInv, Everything, Imports, Keys, TypeOK, StoreTypeOK

LEMMA Unites == ASSUME Kept, ImportsKeep PROVE IInv'
  BY DEF Kept, ImportsKeep, DefinitionsKeep, KeysKeep, IInv, TypeOK, StoreTypeOK, ApiTypeOK

LEMMA StepKeeps == ASSUME IInv, [Next]_vars PROVE Kept /\ IInv'
<1>1. Everything /\ Imports
  BY Divides
<1>2. CASE \E c \in Caller : Request1(c) /\ UNCHANGED migration
  BY <1>1, <1>2, RequestKeeps, ImportsSame, Unites
<1>3. CASE Encoder /\ UNCHANGED migration
  BY <1>1, <1>3, EncoderKeeps, ImportsSame, Unites
<1>4. CASE Migrate
  BY <1>1, <1>4, MigrateKeeps, EarlySteps, CopySteps, InterruptKeeps, DeleteCopyKeeps, Unites DEF Migrate
<1>5. CASE ExpireGraceKeys \/ Tick
  <2>1. UNCHANGED migration
    BY <1>5 DEF ExpireGraceKeys, ExpireGraceKey, Tick
  <2> QED BY <1>1, <1>5, <2>1, OthersStepKeeps, ImportsSame, Unites
<1>6. CASE UNCHANGED vars
  <2>1. UNCHANGED migration /\ UNCHANGED store /\ UNCHANGED api
    BY <1>6 DEF vars
  <2>2. Kept
    BY <1>1, <2>1, Parts, QuietKeeps DEF store, api
  <2> QED BY <1>1, <2>1, <2>2, ImportsSame, Unites
<1> QED BY <1>2, <1>3, <1>4, <1>5, <1>6 DEF Next

LEMMA Starts == ASSUME Init PROVE IInv
<1>1. /\ definition = [s \in Stream |->
           [state |-> IF s = 1 THEN "active" ELSE "none", mirror |-> FALSE, slots |-> {}, revived |-> FALSE]]
      /\ key = [k \in Key |-> [of |-> IF k = 1 THEN 1 ELSE NoStream,
                               status |-> IF k = 1 THEN "active" ELSE "none", until |-> 0]]
      /\ session = [s \in Stream |-> "none"] /\ now = 0
      /\ request = [c \in Caller |-> Idle] /\ publish = NoPublish /\ asked = 0
  BY DEF Init, StoreInit, ApiInit
<1>2. StoreTypeOK
  BY <1>1 DEF StoreTypeOK, Definition, KeyRow
<1>3. ApiTypeOK
  BY <1>1, IdleSound DEF ApiTypeOK, Publish, NoPublish
<1>4. /\ live \in Live /\ slotMap = [status |-> "none", target |-> NoStream] /\ destMap = NoCopy
      /\ copies = {} /\ made = 0 /\ run = NoRun /\ interruptions = 0
  BY DEF Init, MigrationInit
<1>5. MigrationTypeOK
  BY <1>4, NoRunType DEF MigrationTypeOK, Status
<1>6. Copies
  <2>1. copies \ {destMap} = {} /\ Cardinality({}) = 0
    BY <1>4, FS_EmptySet
  <2> QED BY <1>4, <2>1, NoRunType DEF Copies
<1>7. OneActiveKey
  BY <1>1 DEF OneActiveKey, activeKeys, keysOf
<1>8. SlotHeldOnce
  BY <1>1 DEF SlotHeldOnce, holders
<1>9. KeysKnown
  BY <1>1 DEF KeysKnown
<1>10. Requests
  BY <1>1, IdleSound DEF Requests, At
<1> QED BY <1>2, <1>3, <1>5, <1>6, <1>7, <1>8, <1>9, <1>10 DEF IInv, TypeOK

LEMMA Always == Spec => []IInv
<1>1. Init => IInv
  BY Starts
<1>2. IInv /\ [Next]_vars => IInv'
  BY StepKeeps
<1> QED BY <1>1, <1>2, PTL DEF Spec

\* Definitions, keys, requests and the import's tables stay well formed.
THEOREM StreamsTypeCorrect == Spec => []TypeOK
<1>1. IInv => TypeOK
  BY DEF IInv
<1> QED BY <1>1, Always, PTL

\* A stream never has two active keys.
THEOREM OneActiveKeyHolds == Spec => []OneActiveKey
<1>1. IInv => OneActiveKey
  BY DEF IInv
<1> QED BY <1>1, Always, PTL

\* A Live slot is shown by one stream at a time.
THEOREM SlotHeldOnceHolds == Spec => []SlotHeldOnce
<1>1. IInv => SlotHeldOnce
  BY DEF IInv
<1> QED BY <1>1, Always, PTL

\* Every destination too many was paid for with an interrupted run.
THEOREM CopiesCostInterruptionsHolds == Spec => []CopiesCostInterruptions
<1>1. IInv => CopiesCostInterruptions
  <2>1. SUFFICES ASSUME IInv PROVE CopiesCostInterruptions
    OBVIOUS
  <2> DEFINE named == IF run.step = "copied" THEN made ELSE destMap
  <2>2. IsFiniteSet(copies) /\ Cardinality(copies \ {named}) <= interruptions
    BY <2>1, Divides, ImportParts
  <2> HIDE DEF named
  <2>3. IsFiniteSet(copies \ {named})
    BY <2>2, FS_RemoveElement
  <2>4. Cardinality(copies \ {named}) \in Nat /\ Cardinality(copies) \in Nat
    BY <2>2, <2>3, FS_CardinalityType
  <2>5. Cardinality(copies \ {named})
          = IF named \in copies THEN Cardinality(copies) - 1 ELSE Cardinality(copies)
    BY <2>2, FS_RemoveElement
  <2>6. interruptions \in Nat
    BY <2>1, Divides, ImportParts
  <2> QED BY <2>2, <2>4, <2>5, <2>6 DEF CopiesCostInterruptions
<1> QED BY <1>1, Always, PTL

\* A key in grace authenticates until its grace is over, unless its stream is archived.
THEOREM GraceIsKeptHolds == Spec => GraceIsKept
<1>1. IInv /\ [Next]_vars =>
        [\A k \in Key : key[k].status = "grace" /\ key[k].until > now /\ key'[k] # key[k]
                      => definition'[key[k].of].state = "archived"]_vars
  BY StepKeeps DEF Kept, KeysKeep, GraceStep
<1> QED BY <1>1, Always, PTL DEF Spec, GraceIsKept

\* mirror_to_live is switched on for a stream without a slot only by a request that
\* writes it as it was asked: no request that links does, at any of its awaits.
THEOREM MirrorFollowsLinkHolds == Spec => MirrorFollowsLink
<1>1. IInv /\ [Next]_vars =>
        [\A s \in Stream : definition'[s].mirror /\ ~definition[s].mirror /\ definition[s].state # "none"
                         => definition'[s].slots # {} \/ WrittenAsAsked(s)]_vars
  BY StepKeeps DEF Kept, DefinitionsKeep, Grows
<1> QED BY <1>1, Always, PTL DEF Spec, MirrorFollowsLink

=============================================================================
