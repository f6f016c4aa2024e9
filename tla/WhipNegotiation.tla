---------------------------- MODULE WhipNegotiation ----------------------------
(***************************************************************************)
(* One WHIP publish seen from its SDP: the offer that POST /whip/:key      *)
(* negotiates section by section (handleWhipPost, workers/webrtc/sdp.js),  *)
(* the answer, and the resource the client then sends its PATCHes to.      *)
(* WebrtcIngest models the session and transport around it.                *)
(*                                                                         *)
(* A section is [kind, open, codecs, encoding]: its media type, whether    *)
(* its port is not 0, the codecs it lists as [pt, name, apt], and whether  *)
(* it names an SSRC or a RID.  Other SDP attributes are left out.          *)
(***************************************************************************)
EXTENDS Naturals, Sequences, FiniteSets, SequencesExt

CONSTANTS Section,      \* the sections an offer may have
          MaxSections,  \* bound: sections of an offer
          Supported,    \* names of the codecs of the router's capabilities
          Patch,        \* the PATCH requests sent
          Ufrag         \* ICE username fragments a client sends in fragments

Kind == {"audio", "video", "application"}
Codec == [pt : Nat, name : STRING, apt : Nat]

ASSUME SectionAssumption ==
  /\ Section \subseteq [kind : Kind, open : BOOLEAN, codecs : Seq(Codec), encoding : BOOLEAN]
  /\ MaxSections \in Nat

VARIABLES offer,        \* [setup, media, bearer] of the POST
          post,         \* [phase, at, byKind, remote] of its handler
          answer,       \* [media, group, setup] of the 201
          session,      \* is the session in the worker's map?
          entry,        \* [etag, ufrag, bearer] of the resource in sess.whip
          ice,          \* the transport's ICE credentials, numbered
          restarts,     \* restartIce calls not answered yet, in order
          patch,        \* [state, ufrag, creds] of every PATCH
          granted       \* history: [etag, ufrag, creds] as answered to the client

vars == <<offer, post, answer, session, entry, ice, restarts, patch, granted>>
resource == <<entry, ice, restarts, patch, granted>>

Setup == {"actpass", "active", "passive"}
Bearer == {"none", "key", "other"}
First == "first"        \* the fragment of the offer itself
NoAnswer == [media |-> <<>>, group |-> {}, setup |-> "none"]

Offer == [setup : Setup, media : SeqOf(Section, MaxSections), bearer : {"none", "key"}]
Post == [phase : {"connecting", "producing", "answered", "refused"}, at : 0..MaxSections,
         byKind : [Kind -> 0..MaxSections], remote : {"none", "client", "server"}]
PatchRow == [state : {"idle", "reading", "restarting", "done", "refused"},
             ufrag : Ufrag \cup {"none"}, creds : Nat]

Sections == 1..Len(offer.media)
Media(i) == offer.media[i]

-----------------------------------------------------------------------------
(* workers/webrtc/sdp.js                                                   *)

\* The first of the positions I, 0 when there is none.
first(I) == IF I = {} THEN 0 ELSE Min(I)
primaryCodec(m) ==
  first({i \in 1..Len(m.codecs) : m.codecs[i].name # "rtx" /\ m.codecs[i].name \in Supported})
rtxCodecs(m) == {i \in 1..Len(m.codecs) : m.codecs[i].name = "rtx"}

\* The codecs to receive: the primary one and what repairs it, if anything.
chosen(m, primary, rtx) ==
  IF primary = 0 THEN <<>>
  ELSE IF rtx = 0 THEN <<m.codecs[primary]>>
  ELSE <<m.codecs[primary], m.codecs[rtx]>>

\* Mutant of extractRtpParameters: any rtx of the section will do.
extractAnyRtx(m) == chosen(m, primaryCodec(m), first(rtxCodecs(m)))
\* The primary codec, the first offered one the router has, and the first rtx
\* that repairs it; empty when no codec is usable.
extractRtpParameters(m) ==
  LET primary == primaryCodec(m)
  IN  chosen(m, primary, first({i \in rtxCodecs(m) : m.codecs[i].apt = m.codecs[primary].pt}))

\* The role transport.connect() is told the client has.
extractDtlsParameters == IF offer.setup = "passive" THEN "server" ELSE "client"

\* Mutant of buildSdpAnswer: the group names every section.
buildSdpAnswerOfAll(byKind) ==
  [media |-> [i \in Sections |-> IF byKind[Media(i).kind] = 0 THEN <<>>
                                 ELSE extractRtpParameters(Media(byKind[Media(i).kind]))],
   group |-> Sections,
   setup |-> IF offer.setup = "passive" THEN "active" ELSE "passive"]

\* A section is accepted with the codecs of the producer of its kind, and
\* rejected (no codecs) when that kind has none.
buildSdpAnswer(byKind) ==
  LET accepted == {i \in Sections : byKind[Media(i).kind] # 0}
  IN  [media |-> [i \in Sections |-> IF i \in accepted
                                     THEN extractRtpParameters(Media(byKind[Media(i).kind]))
                                     ELSE <<>>],
       group |-> accepted,
       setup |-> IF offer.setup = "passive" THEN "active" ELSE "passive"]

-----------------------------------------------------------------------------
(* POST                                                                    *)

Init ==
  /\ offer \in Offer
  /\ post = [phase |-> "connecting", at |-> 0, byKind |-> [k \in Kind |-> 0], remote |-> "none"]
  /\ answer = NoAnswer
  /\ session = TRUE
  /\ entry = [etag |-> 0, ufrag |-> First, bearer |-> FALSE]
  /\ ice = 1
  /\ restarts = <<>>
  /\ patch = [p \in Patch |-> [state |-> "idle", ufrag |-> "none", creds |-> 0]]
  /\ granted = {}

\* endSessionRecord and an error status.
Refuse ==
  /\ post' = [post EXCEPT !.phase = "refused"]
  /\ session' = FALSE
  /\ UNCHANGED <<answer, resource>>

Answer(byKind, remote) ==
  /\ post' = [post EXCEPT !.phase = "answered", !.byKind = byKind, !.remote = remote]
  /\ answer' = buildSdpAnswer(byKind)
  /\ entry' = [etag |-> 1, ufrag |-> First, bearer |-> offer.bearer = "key"]
  /\ granted' = {[etag |-> 1, ufrag |-> First, creds |-> ice]}
  /\ UNCHANGED <<session, ice, restarts, patch>>

\* The loop over the sections, from section i to the next await: sections that
\* are closed or have no usable codec are passed over; one without an encoding
\* refuses the offer; a producer needs the transport, gone with the session.
Negotiate(i, byKind, remote) ==
  LET usable == {j \in Sections : j >= i /\ Media(j).open /\ extractRtpParameters(Media(j)) # <<>>}
  IN  \/ /\ usable = {}
         /\ IF \E k \in Kind : byKind[k] # 0 THEN Answer(byKind, remote) ELSE Refuse
      \/ \E next \in usable :
           /\ \A j \in usable : next <= j
           /\ IF session /\ Media(next).encoding
              THEN /\ post' = [post EXCEPT !.phase = "producing", !.at = next,
                                            !.byKind = byKind, !.remote = remote]
                   /\ UNCHANGED <<answer, session, resource>>
              ELSE Refuse

\* transport.connect and the capabilities are answered.
Connected ==
  /\ post.phase = "connecting"
  /\ Negotiate(1, post.byKind, extractDtlsParameters)
  /\ UNCHANGED offer

\* sfu.produce is answered: the producer of its kind is this one from now on.
Produced ==
  /\ post.phase = "producing"
  /\ Negotiate(post.at + 1, [post.byKind EXCEPT ![Media(post.at).kind] = post.at], post.remote)
  /\ UNCHANGED offer

\* The transport, its connection or a producer fails.
PostFails ==
  /\ post.phase \in {"connecting", "producing"}
  /\ Refuse
  /\ UNCHANGED offer

\* The session ends for a reason of its own (ICE, DTLS, an end request, a
\* drain).  Its entry stays in sess.whip; requests already sent to mediasoup
\* are still answered, in order.
SessionEnds ==
  /\ session
  /\ session' = FALSE
  /\ UNCHANGED <<offer, post, answer, resource>>

-----------------------------------------------------------------------------
(* The resource                                                            *)

whipResourceAuthorized(b) == IF b = "none" THEN ~entry.bearer ELSE b = "key"
findWhip == session /\ post.phase = "answered"

\* What a client may put into If-Match: nothing (0 here) or a tag it was given;
\* "*" names the tag in force.
IfMatch == {0} \cup {g.etag : g \in granted}
conditioned(m) == m = entry.etag

Become(p, state) == patch' = [patch EXCEPT ![p].state = state]

\* The headers of a PATCH are checked before its body is read: 404, 401, 428 or
\* 412, or the handler goes on.
PatchArrives(p, b, m) ==
  /\ patch[p].state = "idle" /\ post.phase = "answered"
  /\ Become(p, IF findWhip /\ whipResourceAuthorized(b) /\ conditioned(m)
               THEN "reading" ELSE "refused")
  /\ UNCHANGED <<offer, post, answer, session, entry, ice, restarts, granted>>

\* The body: malformed (400), candidates only or the client's present fragment
\* (204), or new credentials, which need the transport.
PatchRead(p, u) ==
  /\ patch[p].state = "reading"
  /\ IF u \in {"none", "malformed", entry.ufrag}
     THEN Become(p, IF u = "malformed" THEN "refused" ELSE "done") /\ UNCHANGED restarts
     ELSE IF ~session
     THEN Become(p, "refused") /\ UNCHANGED restarts
     ELSE /\ patch' = [patch EXCEPT ![p].state = "restarting", ![p].ufrag = u]
          /\ restarts' = Append(restarts, p)
  /\ UNCHANGED <<offer, post, answer, session, entry, ice, granted>>

\* mediasoup handles the requests in order: new credentials for the transport.
IceRestarted ==
  /\ \E i \in 1..Len(restarts) :
       /\ patch[restarts[i]].creds = 0
       /\ \A j \in 1..(i - 1) : patch[restarts[j]].creds # 0
       /\ patch' = [patch EXCEPT ![restarts[i]].creds = ice + 1]
  /\ ice' = ice + 1
  /\ UNCHANGED <<offer, post, answer, session, entry, restarts, granted>>

RestartFails(p) ==
  /\ p = Head(restarts) /\ patch[p].creds = 0
  /\ restarts' = Tail(restarts)
  /\ Become(p, "refused")
  /\ UNCHANGED <<offer, post, answer, session, entry, ice, granted>>

\* Mutant of PatchAnswered: the resource keeps its entity-tag.
PatchAnsweredSameTag(p) ==
  /\ p = Head(restarts) /\ patch[p].creds # 0
  /\ restarts' = Tail(restarts)
  /\ entry' = [entry EXCEPT !.ufrag = patch[p].ufrag]
  /\ granted' = granted \cup {[etag |-> entry.etag, ufrag |-> patch[p].ufrag, creds |-> patch[p].creds]}
  /\ Become(p, "done")
  /\ UNCHANGED <<offer, post, answer, session, ice>>

\* The restart is answered: 200 with the credentials and a new entity-tag.
\* (sess.whip is never emptied, so the check at webrtc.js:360 always passes.)
PatchAnswered(p) ==
  /\ p = Head(restarts) /\ patch[p].creds # 0
  /\ restarts' = Tail(restarts)
  /\ LET tag == Cardinality(granted) + 1
     IN  /\ entry' = [entry EXCEPT !.etag = tag, !.ufrag = patch[p].ufrag]
         /\ granted' = granted \cup {[etag |-> tag, ufrag |-> patch[p].ufrag, creds |-> patch[p].creds]}
  /\ Become(p, "done")
  /\ UNCHANGED <<offer, post, answer, session, ice>>

\* DELETE ends the session.
WhipDelete(b) ==
  /\ findWhip /\ whipResourceAuthorized(b)
  /\ session' = FALSE
  /\ UNCHANGED <<offer, post, answer, resource>>

-----------------------------------------------------------------------------
Next ==
  \/ Connected \/ Produced \/ PostFails \/ SessionEnds
  \/ \E p \in Patch :
       \/ \E b \in Bearer, m \in IfMatch : PatchArrives(p, b, m)
       \/ \E u \in Ufrag \cup {"none", "malformed"} : PatchRead(p, u)
  \/ IceRestarted
  \/ /\ restarts # <<>>
     /\ \E p \in Patch : RestartFails(p) \/ PatchAnswered(p)
  \/ \E b \in Bearer : WhipDelete(b)

Spec == Init /\ [][Next]_vars

-----------------------------------------------------------------------------
TypeOK ==
  /\ offer \in Offer /\ post \in Post
  /\ answer.group \subseteq Sections /\ answer.setup \in {"none", "active", "passive"}
  /\ session \in BOOLEAN
  /\ entry \in [etag : Nat, ufrag : Ufrag \cup {First}, bearer : BOOLEAN]
  /\ ice \in Nat \ {0}
  /\ restarts \in Seq(Patch) /\ IsInjective(restarts)
  /\ ToSet(restarts) = {p \in Patch : patch[p].state = "restarting"}
  /\ patch \in [Patch -> PatchRow]
  /\ granted \subseteq [etag : Nat, ufrag : Ufrag \cup {First}, creds : Nat]

\* The offer a browser or an encoder makes: at most one section of a kind.
Plain == \A i, j \in Sections : Media(i).kind = Media(j).kind => i = j

\* What the two ends agreed on is one thing (webrtc.js:245-287, sdp.js:190-262):
\* of an offer with one section of a kind, the answer accepts and bundles the
\* sections that have a producer and no other, with codecs offered in that very
\* section, and gives the DTLS roles the transport was connected with.
AnswerIsAgreed ==
  post.phase = "answered" =>
    /\ (answer.setup = "active") <=> (post.remote = "server")
    /\ Plain => /\ answer.group = {post.byKind[k] : k \in Kind} \ {0}
                /\ \A i \in Sections :
                     /\ i \in answer.group <=> answer.media[i] # <<>>
                     /\ ToSet(answer.media[i]) \subseteq ToSet(Media(i).codecs)

\* An answered retransmission codec repairs a codec of the same answered
\* section (sdp.js:138-143), whatever else the offer listed.
RtxHasItsCodec ==
  \A i \in DOMAIN answer.media : \A c \in ToSet(answer.media[i]) :
    c.name = "rtx" => \E d \in ToSet(answer.media[i]) : d.pt = c.apt /\ d.name \in Supported

\* An entity-tag names one ICE session: no two answers give one tag, and once
\* no restart is in flight the tag and fragment in force are those of the
\* transport's credentials, with several PATCHes at once (webrtc.js:348-364).
TagNamesIceSession ==
  post.phase = "answered" =>
    /\ \A g, h \in granted : g.etag = h.etag => g = h
    /\ restarts = <<>> => [etag |-> entry.etag, ufrag |-> entry.ufrag, creds |-> ice] \in granted

\* sdp.js:186-188: "Only *accepted* m-sections go in the BUNDLE group", so that
\* a section with "a codec the router lacks" is rejected: every section of the
\* group is one the router can take.
BundleIsAccepted ==
  \A i \in answer.group : Media(i).open /\ extractRtpParameters(Media(i)) # <<>>
=============================================================================
