------------------------------ MODULE StreamApi ------------------------------
(***************************************************************************)
(* The streams part of the HTTP API (server/api/v1.js), with the Live link *)
(* (server/live-link.js) and the publish of an encoder, as requests that   *)
(* run beside each other.  One action per stretch between two awaits that  *)
(* matter; a request holds what it read.                                   *)
(***************************************************************************)
EXTENDS DefinitionStore

CONSTANTS Caller,       \* requests that may run at the same time
          MaxRequests   \* bound: requests, publishes and migration runs started

ASSUME RequestAssumption == MaxRequests \in Nat

VARIABLES request,  \* Caller -> the request in progress
          publish,  \* the publish in progress: its key and how far its check is
          asked

api == <<request, publish, asked>>

\* step     what the request does next
\* of       its stream
\* mirror, state   the fields it writes
\* direct   it switches mirror_to_live on and nothing is linked first
\* link     whether the Live link follows
\* seen     mirror_to_live as link() has read it
\* slot     the slot Live answered with, or none
\* grace, ending   of a rotation
Request == [step : {"idle", "reading", "writing", "linking", "binding", "bound", "archiving",
                    "rotating", "openFor"},
            of : Stream \cup {NoStream}, mirror : {"same", "on", "off"},
            state : {"same", "active", "disabled"}, direct : BOOLEAN, link : BOOLEAN, seen : BOOLEAN,
            slots : SUBSET Slot, grace : 0..1, ending : BOOLEAN]
Idle == [step |-> "idle", of |-> NoStream, mirror |-> "same", state |-> "same", direct |-> FALSE,
         link |-> FALSE, seen |-> FALSE, slots |-> {}, grace |-> 0, ending |-> FALSE]
Publish == [step : {"idle", "definition", "admission"}, key : Key \cup {NoKey}]
NoPublish == [step |-> "idle", key |-> NoKey]

ApiTypeOK ==
  /\ request \in [Caller -> Request]
  /\ publish \in Publish
  /\ asked \in 0..MaxRequests

ApiInit ==
  /\ request = [c \in Caller |-> Idle]
  /\ publish = NoPublish
  /\ asked = 0

At(c, step) == request[c].step = step
Of(c) == request[c].of
Goes(c, r) == request' = [request EXCEPT ![c] = r]
Done(c) == Goes(c, Idle)

\* A new request; loadDefinition finds its stream.
Asks == asked < MaxRequests /\ asked' = asked + 1
Arrives(c, s) == At(c, "idle") /\ Asks /\ Present(s)

-----------------------------------------------------------------------------
(* POST, PATCH and the Live link                                           *)

\* POST /streams: the link is asked for unless show_on_live is false.
PostStream(c) ==
  /\ At(c, "idle") /\ Asks
  /\ \E s \in Stream, mirror \in BOOLEAN, slots \in {{}} \cup {{m} : m \in Slot}, link \in BOOLEAN :
       /\ create(s, mirror, slots)
       /\ Goes(c, IF link THEN [Idle EXCEPT !.step = "linking", !.of = s] ELSE Idle)
  /\ UNCHANGED <<session, now, publish>>

\* PATCH /streams/:id: mirror_to_live goes to the link when an owner switches it on
\* and no slot is known; a service, or anybody where no link is configured, writes it
\* as it is.  update() then reads the definition once more.
PatchStream(c) ==
  /\ \E s \in Stream, mirror \in {"same", "on", "off"}, state \in {"same", "active", "disabled"},
        linkable \in BOOLEAN :
       LET linkNow == linkable /\ mirror = "on" /\ definition[s].slots = {} IN
       /\ Arrives(c, s)
       /\ Goes(c, [Idle EXCEPT !.step = "reading", !.of = s, !.state = state,
                     !.mirror = IF linkNow THEN "same" ELSE mirror, !.link = linkNow,
                     !.direct = mirror = "on" /\ ~linkable])
  /\ UNCHANGED <<store, publish>>

\* update(): 404, nothing to write, or the fields to write.
UpdateReads(c) ==
  /\ At(c, "reading")
  /\ LET r == request[c] IN
     Goes(c, IF ~Present(r.of) THEN Idle
             ELSE IF r.mirror # "same" \/ r.state # "same" THEN [r EXCEPT !.step = "writing"]
             ELSE IF r.link THEN [Idle EXCEPT !.step = "linking", !.of = r.of] ELSE Idle)
  /\ UNCHANGED <<store, publish, asked>>

UpdateWrites(c) ==
  /\ At(c, "writing")
  /\ update(Of(c), request[c].mirror, request[c].state)
  /\ Goes(c, IF request[c].link THEN [Idle EXCEPT !.step = "linking", !.of = Of(c)] ELSE Idle)
  /\ UNCHANGED <<key, session, now, publish, asked>>

\* What link() does last: an update of its own.
ThenMirror(c, to) ==
  Goes(c, [Idle EXCEPT !.step = "reading", !.of = Of(c), !.mirror = to])

\* link(), on the definition as it is now: it has a slot, or Live is asked for one.
LinkReads(c) ==
  /\ At(c, "linking")
  /\ LET d == definition[Of(c)] IN
     IF d.slots = {} THEN Goes(c, [request[c] EXCEPT !.step = "binding", !.seen = d.mirror])
     ELSE IF d.mirror THEN Done(c) ELSE ThenMirror(c, "on")
  /\ UNCHANGED <<store, publish, asked>>

\* Mutant of Bind: mirror_to_live is switched on before the slot is recorded.
BindMirrorFirst(c) ==
  /\ At(c, "binding")
  /\ ThenMirror(c, "on")
  /\ UNCHANGED <<store, publish, asked>>

\* Live gives a slot, or refuses, or does not answer.
Bind(c) ==
  /\ At(c, "binding")
  /\ \/ \E slot \in Slot : Goes(c, [request[c] EXCEPT !.step = "bound", !.slots = {slot}])
     \/ IF request[c].seen THEN ThenMirror(c, "off") ELSE Done(c)
  /\ UNCHANGED <<store, publish, asked>>

\* addRef records the slot, or throws.
LinkRecords(c) ==
  /\ At(c, "bound")
  /\ \E slot \in request[c].slots :
       IF addRefRefused(Of(c), slot) THEN Done(c) /\ UNCHANGED definition
       ELSE addRef(Of(c), slot) /\ ThenMirror(c, "on")
  /\ UNCHANGED <<key, session, now, publish, asked>>

-----------------------------------------------------------------------------
(* DELETE and key rotation                                                 *)

\* archive() finds no open session,
DeleteStream(c) ==
  /\ \E s \in Stream :
       /\ Arrives(c, s) /\ session[s] = "none"
       /\ Goes(c, [Idle EXCEPT !.step = "archiving", !.of = s])
  /\ UNCHANGED <<store, publish>>

\* and then archives, whatever was opened since.
Archive(c) ==
  /\ At(c, "archiving")
  /\ archive(Of(c))
  /\ Done(c)
  /\ UNCHANGED <<session, now, publish, asked>>

PostRotate(c) ==
  /\ \E s \in Stream, grace \in 0..1, ending \in BOOLEAN :
       /\ Arrives(c, s)
       /\ Goes(c, [Idle EXCEPT !.step = "rotating", !.of = s, !.grace = grace, !.ending = ending])
  /\ UNCHANGED <<store, publish>>

Rotate(c) ==
  /\ At(c, "rotating")
  /\ rotateKey(Of(c), request[c].grace)
  /\ Goes(c, IF request[c].ending THEN [Idle EXCEPT !.step = "openFor", !.of = Of(c)] ELSE Idle)
  /\ UNCHANGED <<definition, session, now, publish, asked>>

\* end_sessions: requestEnd of the sessions that are open by now.
EndSessions(c) ==
  /\ At(c, "openFor")
  /\ session' = [session EXCEPT ![Of(c)] = IF @ = "open" THEN "ending" ELSE @]
  /\ Done(c)
  /\ UNCHANGED <<definition, key, now, publish, asked>>

\* The process restarts, or a query fails: what the request had left to do is not done.
Abort(c) ==
  /\ ~At(c, "idle")
  /\ Done(c)
  /\ UNCHANGED <<store, publish, asked>>

Request1(c) ==
  \/ PostStream(c) \/ PatchStream(c) \/ UpdateReads(c) \/ UpdateWrites(c)
  \/ LinkReads(c) \/ Bind(c) \/ LinkRecords(c)
  \/ DeleteStream(c) \/ Archive(c) \/ PostRotate(c) \/ Rotate(c) \/ EndSessions(c)
  \/ Abort(c)

-----------------------------------------------------------------------------
(* An encoder                                                              *)

\* resolveIngestKey reads the key, and then its definition;
KeyRead ==
  /\ publish = NoPublish /\ Asks
  /\ \E k \in Key : usable(k) /\ publish' = [step |-> "definition", key |-> k]
  /\ UNCHANGED <<store, request>>

DefinitionRead ==
  /\ publish.step = "definition"
  /\ publish' = IF publishable(key[publish.key].of) THEN [publish EXCEPT !.step = "admission"]
                ELSE NoPublish
  /\ UNCHANGED <<store, request, asked>>

\* admit() asks for no key any more, only whether the stream is free.
Admit ==
  /\ publish.step = "admission"
  /\ publish' = NoPublish
  /\ session' = [session EXCEPT ![key[publish.key].of] = IF @ = "none" THEN "open" ELSE @]
  /\ UNCHANGED <<definition, key, now, request, asked>>

SessionCloses(s) ==
  /\ session[s] # "none"
  /\ session' = [session EXCEPT ![s] = "none"]
  /\ UNCHANGED <<definition, key, now, api>>

Encoder == KeyRead \/ DefinitionRead \/ Admit \/ \E s \in Stream : SessionCloses(s)

=============================================================================
