------------------------ MODULE WhipNegotiationProofs ------------------------
(***************************************************************************)
(* Proofs about WhipNegotiation, for any catalogue of sections, offers of  *)
(* any length, any codecs of the router and any number of PATCHes.         *)
(*                                                                         *)
(* Until the answer only the POST changes anything, and afterwards only    *)
(* the resource does: Negotiated says what the POST has found so far,      *)
(* Current what the resource and the requests to mediasoup have to do with *)
(* each other.                                                             *)
(***************************************************************************)
EXTENDS WhipNegotiation, FiniteSetTheorems, WellFoundedInduction, TLAPS

USE SectionAssumption

-----------------------------------------------------------------------------
(* The inductive invariant                                                 *)

\* A section the router can take.
Takes(i) == i \in Sections /\ extractRtpParameters(Media(i)) # <<>>

Found(byKind) ==
  \A k \in Kind : byKind[k] # 0 => Takes(byKind[k]) /\ Media(byKind[k]).kind = k

Negotiated ==
  /\ Found(post.byKind)
  /\ post.phase = "producing" => Takes(post.at)
  /\ post.phase \in {"producing", "answered"} => post.remote = extractDtlsParameters
  /\ IF post.phase = "answered" THEN answer = buildSdpAnswer(post.byKind)
     ELSE answer = NoAnswer /\ granted = {} /\ \A p \in Patch : patch[p] = [state |-> "idle", ufrag |-> "none", creds |-> 0]

Creds(i) == patch[restarts[i]].creds

\* mediasoup has restarted ICE for the first few of the requests it was sent;
\* its credentials are those of the last of them, or those in force.
Current ==
  /\ \A p \in Patch :
       /\ patch[p].state \in {"idle", "reading"} => patch[p].creds = 0
       /\ patch[p].state = "restarting" => patch[p].ufrag \in Ufrag
  /\ \A i, j \in 1..Len(restarts) : i < j /\ Creds(j) # 0 => Creds(i) # 0
  /\ \A i \in 1..Len(restarts) :
       Creds(i) # 0 /\ (\A j \in 1..Len(restarts) : i < j => Creds(j) = 0) => Creds(i) = ice
  /\ post.phase = "answered" /\ (\A i \in 1..Len(restarts) : Creds(i) = 0)
       => [etag |-> entry.etag, ufrag |-> entry.ufrag, creds |-> ice] \in granted

\* Every answer has the next entity-tag.
Tagged ==
  /\ IsFiniteSet(granted)
  /\ \A g \in granted : g.etag <= Cardinality(granted)
  /\ \A g, h \in granted : g.etag = h.etag => g = h

IInv == TypeOK /\ Negotiated /\ Current /\ Tagged

-----------------------------------------------------------------------------
(* The codecs of a section                                                 *)

\* first() is one of the positions it is given.
LEMMA FirstIsOne ==
  ASSUME NEW S \in SUBSET Nat, first(S) # 0
  PROVE  first(S) \in S
<1> DEFINE R == OpToRel(<, Nat)
<1>0. S # {} /\ first(S) = Min(S)
  BY DEF first
<1>1. PICK x \in S : \A y \in S : ~(<<y, x>> \in R)
  BY <1>0, NatLessThanWellFounded, WFMin, Zenon
<1>2. \A a, b \in Nat : <<a, b>> \in R <=> a < b
  BY DEF OpToRel
<1> HIDE DEF R
<1>3. \A y \in S : x <= y
  <2> TAKE y \in S
  <2>1. x \in Nat /\ y \in Nat
    OBVIOUS
  <2>2. ~(<<y, x>> \in R)
    BY <1>1, Zenon
  <2>3. ~(y < x)
    BY <1>2, <2>1, <2>2, Zenon
  <2> QED
    BY <2>1, <2>3
<1> QED
  BY <1>0, <1>3 DEF Min

\* extractRtpParameters lists codecs of the section: none, a primary one the
\* router has, or that and an rtx that repairs it.
LEMMA Extracted ==
  ASSUME NEW m \in Section
  PROVE  \/ extractRtpParameters(m) = <<>>
         \/ \E p \in 1..Len(m.codecs) :
              /\ m.codecs[p].name # "rtx" /\ m.codecs[p].name \in Supported
              /\ \/ extractRtpParameters(m) = <<m.codecs[p]>>
                 \/ \E r \in 1..Len(m.codecs) :
                      /\ m.codecs[r].name = "rtx" /\ m.codecs[r].apt = m.codecs[p].pt
                      /\ extractRtpParameters(m) = <<m.codecs[p], m.codecs[r]>>
<1> DEFINE P == {i \in 1..Len(m.codecs) : m.codecs[i].name # "rtx" /\ m.codecs[i].name \in Supported}
           p == primaryCodec(m)
           R == {i \in rtxCodecs(m) : m.codecs[i].apt = m.codecs[p].pt}
           r == first(R)
<1>1. p = first(P) /\ P \subseteq Nat /\ R \subseteq Nat
  BY DEF primaryCodec, rtxCodecs
<1>2. extractRtpParameters(m) = chosen(m, p, r)
  BY DEF extractRtpParameters
<1>3. p # 0 => p \in P
  BY <1>1, FirstIsOne
<1>4. r # 0 => r \in R
  BY <1>1, FirstIsOne
<1>5. CASE p = 0
  BY <1>2, <1>5 DEF chosen
<1>6. CASE p # 0 /\ r = 0
  <2>1. extractRtpParameters(m) = <<m.codecs[p]>>
    BY <1>2, <1>6 DEF chosen
  <2> QED
    BY <1>3, <1>6, <2>1
<1>7. CASE p # 0 /\ r # 0
  <2>1. extractRtpParameters(m) = <<m.codecs[p], m.codecs[r]>>
    BY <1>2, <1>7 DEF chosen
  <2>2. r \in 1..Len(m.codecs) /\ m.codecs[r].name = "rtx" /\ m.codecs[r].apt = m.codecs[p].pt
    BY <1>4, <1>7 DEF rtxCodecs
  <2> QED
    BY <1>3, <1>7, <2>1, <2>2
<1> QED
  BY <1>5, <1>6, <1>7

LEMMA OfTheSection ==
  ASSUME NEW m \in Section
  PROVE  /\ ToSet(extractRtpParameters(m)) \subseteq ToSet(m.codecs)
         /\ \A c \in ToSet(extractRtpParameters(m)) : c.name = "rtx" =>
              \E d \in ToSet(extractRtpParameters(m)) : d.pt = c.apt /\ d.name \in Supported
<1>0. m.codecs \in Seq(Codec)
  OBVIOUS
<1>1. CASE extractRtpParameters(m) = <<>>
  BY <1>1 DEF ToSet
<1>2. ASSUME NEW p \in 1..Len(m.codecs),
             m.codecs[p].name # "rtx", m.codecs[p].name \in Supported,
             extractRtpParameters(m) = <<m.codecs[p]>>
      PROVE  /\ ToSet(extractRtpParameters(m)) \subseteq ToSet(m.codecs)
             /\ \A c \in ToSet(extractRtpParameters(m)) : c.name = "rtx" =>
                  \E d \in ToSet(extractRtpParameters(m)) : d.pt = c.apt /\ d.name \in Supported
  <2>1. ToSet(extractRtpParameters(m)) = {m.codecs[p]}
    BY <1>2 DEF ToSet
  <2>2. m.codecs[p] \in ToSet(m.codecs)
    BY <1>0 DEF ToSet
  <2> QED
    BY <1>2, <2>1, <2>2
<1>3. ASSUME NEW p \in 1..Len(m.codecs), NEW r \in 1..Len(m.codecs),
             m.codecs[p].name # "rtx", m.codecs[p].name \in Supported,
             m.codecs[r].name = "rtx", m.codecs[r].apt = m.codecs[p].pt,
             extractRtpParameters(m) = <<m.codecs[p], m.codecs[r]>>
      PROVE  /\ ToSet(extractRtpParameters(m)) \subseteq ToSet(m.codecs)
             /\ \A c \in ToSet(extractRtpParameters(m)) : c.name = "rtx" =>
                  \E d \in ToSet(extractRtpParameters(m)) : d.pt = c.apt /\ d.name \in Supported
  <2>1. ToSet(extractRtpParameters(m)) = {m.codecs[p], m.codecs[r]}
    BY <1>3 DEF ToSet
  <2>2. m.codecs[p] \in ToSet(m.codecs) /\ m.codecs[r] \in ToSet(m.codecs)
    BY <1>0 DEF ToSet
  <2> QED
    BY <1>3, <2>1, <2>2
<1> QED
  BY <1>1, <1>2, <1>3, Extracted

-----------------------------------------------------------------------------
(* The POST                                                                *)

LEMMA Sectioned ==
  ASSUME TypeOK
  PROVE  /\ Sections \subseteq 1..MaxSections
         /\ \A i \in Sections : Media(i) \in Section /\ Media(i).kind \in Kind
<1>1. PICK n \in 0..MaxSections : offer.media \in [1..n -> Section]
  BY DEF TypeOK, Offer, SeqOf
<1>2. Len(offer.media) = n
  BY <1>1
<1>3. \A i \in Sections : Media(i) \in Section
  BY <1>1, <1>2 DEF Sections, Media
<1> QED
  BY <1>2, <1>3 DEF Sections

\* A PATCH that was not sent yet is in no queue.
LEMMA NothingQueued ==
  ASSUME TypeOK, \A p \in Patch : patch[p].state # "restarting"
  PROVE  restarts = <<>>
<1>1. ToSet(restarts) = {} /\ restarts \in Seq(Patch)
  BY DEF TypeOK
<1> QED
  BY <1>1 DEF ToSet

LEMMA Initially == Init => IInv
<1> SUFFICES ASSUME Init PROVE IInv
  OBVIOUS
<1>1. TypeOK
  <2>1. post \in Post
    BY DEF Init, Post
  <2>2. restarts \in Seq(Patch) /\ IsInjective(restarts) /\ ToSet(restarts) = {}
    BY DEF Init, IsInjective, ToSet
  <2>3. patch \in [Patch -> PatchRow] /\ {p \in Patch : patch[p].state = "restarting"} = {}
    BY DEF Init, PatchRow
  <2> QED
    BY <2>1, <2>2, <2>3 DEF Init, TypeOK, NoAnswer, First
<1>2. Negotiated
  BY DEF Init, Negotiated, Found
<1>3. Current
  BY DEF Init, Current, Creds
<1>4. Tagged
  BY FS_EmptySet DEF Init, Tagged
<1> QED
  BY <1>1, <1>2, <1>3, <1>4 DEF IInv

LEMMA RefuseKeeps ==
  ASSUME IInv, UNCHANGED offer, post.phase \in {"connecting", "producing"}, Refuse
  PROVE  IInv'
<1> USE DEF Refuse, resource
<1>1. TypeOK'
  BY DEF IInv, TypeOK, Post, Sections
<1>2. Negotiated'
  BY DEF IInv, TypeOK, Post, Negotiated, Found, Takes, Media, Sections
<1>3. Current' /\ Tagged'
  BY DEF IInv, TypeOK, Post, Current, Tagged, Creds
<1> QED
  BY <1>1, <1>2, <1>3 DEF IInv

LEMMA AnswerKeeps ==
  ASSUME IInv, UNCHANGED offer, post.phase \in {"connecting", "producing"},
         NEW byKind \in [Kind -> 0..MaxSections], Found(byKind),
         Answer(byKind, extractDtlsParameters)
  PROVE  IInv'
<1>0. restarts = <<>>
  BY NothingQueued DEF IInv, Negotiated
<1>1. TypeOK'
  <2>1. post' \in Post
    BY DEF IInv, TypeOK, Post, Answer, extractDtlsParameters
  <2>2. answer'.group \subseteq Sections' /\ answer'.setup \in {"none", "active", "passive"}
    BY DEF Answer, buildSdpAnswer, Sections
  <2>3. entry' \in [etag : Nat, ufrag : Ufrag \cup {First}, bearer : BOOLEAN]
    BY DEF Answer
  <2>4. granted' \subseteq [etag : Nat, ufrag : Ufrag \cup {First}, creds : Nat]
    BY DEF IInv, TypeOK, Answer
  <2> QED
    BY <2>1, <2>2, <2>3, <2>4 DEF IInv, TypeOK, Answer
<1>2. Negotiated'
  <2>1. post'.byKind = byKind /\ post'.phase = "answered" /\ post'.remote = extractDtlsParameters
    BY DEF IInv, TypeOK, Post, Answer
  <2>2. extractDtlsParameters' = extractDtlsParameters
    BY DEF extractDtlsParameters
  <2>3. answer' = buildSdpAnswer(byKind)
    BY DEF Answer
  <2>4. buildSdpAnswer(byKind)' = buildSdpAnswer(byKind)
    BY DEF buildSdpAnswer, Sections, Media
  <2>5. Found(byKind)'
    BY DEF Found, Takes, Sections, Media
  <2> QED
    BY <2>1, <2>2, <2>3, <2>4, <2>5 DEF Negotiated, Found
<1>3. Current'
  BY <1>0 DEF IInv, Current, Answer, Creds
<1>4. Tagged'
  <2> DEFINE g == [etag |-> 1, ufrag |-> First, creds |-> ice]
  <2>1. granted' = {g} /\ g.etag = 1
    BY DEF Answer
  <2> HIDE DEF g
  <2>2. IsFiniteSet({g}) /\ Cardinality({g}) = 1
    BY FS_Singleton, Zenon
  <2> QED
    BY <2>1, <2>2 DEF Tagged
<1> QED
  BY <1>1, <1>2, <1>3, <1>4 DEF IInv

LEMMA NegotiateKeeps ==
  ASSUME IInv, UNCHANGED offer, post.phase \in {"connecting", "producing"}, NEW i,
         NEW byKind \in [Kind -> 0..MaxSections], Found(byKind),
         Negotiate(i, byKind, extractDtlsParameters)
  PROVE  IInv'
<1> DEFINE usable == {j \in Sections : j >= i /\ Media(j).open /\ extractRtpParameters(Media(j)) # <<>>}
<1>1. CASE Refuse
  BY <1>1, RefuseKeeps
<1>2. CASE Answer(byKind, extractDtlsParameters)
  BY <1>2, AnswerKeeps
<1>3. ASSUME NEW next \in usable,
             post' = [post EXCEPT !.phase = "producing", !.at = next,
                                  !.byKind = byKind, !.remote = extractDtlsParameters],
             UNCHANGED <<answer, session, resource>>
      PROVE  IInv'
  <2>0. Takes(next) /\ next \in 0..MaxSections
    BY Sectioned DEF IInv, Takes
  <2>1. post' \in Post
    BY <1>3, <2>0 DEF IInv, TypeOK, Post, extractDtlsParameters
  <2>2. TypeOK'
    BY <1>3, <2>1 DEF IInv, TypeOK, resource, Sections
  <2>3. /\ post'.phase = "producing" /\ post'.at = next /\ post'.byKind = byKind
        /\ post'.remote = extractDtlsParameters
    BY <1>3 DEF IInv, TypeOK, Post
  <2>4. extractDtlsParameters' = extractDtlsParameters
    BY DEF extractDtlsParameters
  <2>5. Found(byKind)' /\ Takes(next)'
    BY <2>0 DEF Found, Takes, Sections, Media
  <2>6. answer = NoAnswer /\ granted = {} /\ \A p \in Patch : patch[p] = [state |-> "idle", ufrag |-> "none", creds |-> 0]
    BY DEF IInv, Negotiated
  <2>7. Negotiated'
    BY <1>3, <2>3, <2>4, <2>5, <2>6 DEF Negotiated, Found, Takes, resource
  <2>8. Current' /\ Tagged'
    BY <1>3, <2>3 DEF IInv, Current, Tagged, Creds, resource
  <2> QED
    BY <2>2, <2>7, <2>8 DEF IInv
<1> QED
  BY <1>1, <1>2, <1>3 DEF Negotiate

-----------------------------------------------------------------------------
(* The resource                                                            *)

LEMMA Appended ==
  ASSUME NEW q \in Seq(Patch), IsInjective(q), NEW p \in Patch, p \notin ToSet(q)
  PROVE  /\ Append(q, p) \in Seq(Patch) /\ IsInjective(Append(q, p))
         /\ ToSet(Append(q, p)) = ToSet(q) \cup {p}
<1> DEFINE r == Append(q, p)
           n == Len(q)
<1>1. n \in Nat /\ r \in Seq(Patch) /\ Len(r) = n + 1
  OBVIOUS
<1>2. (\A i \in 1..n : r[i] = q[i]) /\ r[n + 1] = p
  OBVIOUS
<1>3. DOMAIN q = 1..n /\ DOMAIN r = 1..n + 1
  BY <1>1
<1>4. \A i \in 1..n : q[i] # p
  BY <1>3 DEF ToSet
<1>5. \A i, j \in 1..n : q[i] = q[j] => i = j
  BY <1>3 DEF IsInjective
<1> HIDE DEF r, n
<1>6. \A i, j \in 1..n + 1 : r[i] = r[j] => i = j
  <2> TAKE i, j \in 1..n + 1
  <2>1. (i \in 1..n \/ i = n + 1) /\ (j \in 1..n \/ j = n + 1)
    BY <1>1
  <2> QED
    BY <1>2, <1>4, <1>5, <2>1
<1>7. IsInjective(r)
  BY <1>3, <1>6 DEF IsInjective
<1>8. ToSet(r) = ToSet(q) \cup {p}
  <2>1. 1..n + 1 = 1..n \cup {n + 1}
    BY <1>1
  <2>2. ToSet(r) = {r[i] : i \in 1..n} \cup {r[n + 1]}
    BY <1>3, <2>1 DEF ToSet
  <2>3. {r[i] : i \in 1..n} = {q[i] : i \in 1..n}
    BY <1>2
  <2> QED
    BY <1>2, <1>3, <2>2, <2>3 DEF ToSet
<1> QED
  BY <1>1, <1>7, <1>8 DEF r

LEMMA Tailed ==
  ASSUME NEW q \in Seq(Patch), IsInjective(q), q # <<>>
  PROVE  /\ Tail(q) \in Seq(Patch) /\ IsInjective(Tail(q))
         /\ ToSet(Tail(q)) = ToSet(q) \ {Head(q)}
<1>1. Len(q) \in Nat \ {0} /\ Head(q) = q[1] /\ Tail(q) \in Seq(Patch)
  OBVIOUS
<1>2. Len(Tail(q)) = Len(q) - 1 /\ \A i \in 1..Len(q) - 1 : Tail(q)[i] = q[i + 1]
  OBVIOUS
<1>3. DOMAIN q = 1..Len(q) /\ DOMAIN Tail(q) = 1..Len(q) - 1
  BY <1>1, <1>2
<1>4. IsInjective(Tail(q))
  BY <1>1, <1>2, <1>3 DEF IsInjective
<1>5. ToSet(Tail(q)) \subseteq ToSet(q) \ {Head(q)}
  BY <1>1, <1>2, <1>3 DEF IsInjective, ToSet
<1>6. ASSUME NEW i \in 1..Len(q), q[i] # Head(q)
      PROVE  q[i] \in ToSet(Tail(q))
  <2>1. i - 1 \in DOMAIN Tail(q) /\ Tail(q)[i - 1] = q[i]
    BY <1>1, <1>2, <1>3, <1>6
  <2> QED
    BY <2>1 DEF ToSet
<1> QED
  BY <1>1, <1>3, <1>4, <1>5, <1>6 DEF ToSet

LEMMA Queue ==
  ASSUME TypeOK
  PROVE  /\ Len(restarts) \in Nat
         /\ \A i \in 1..Len(restarts) :
              /\ restarts[i] \in Patch /\ patch[restarts[i]].state = "restarting"
              /\ Creds(i) \in Nat
         /\ \A i, j \in 1..Len(restarts) : restarts[i] = restarts[j] => i = j
         /\ \A p \in Patch : patch[p].state # "restarting" => p \notin ToSet(restarts)
<1>1. restarts \in Seq(Patch) /\ patch \in [Patch -> PatchRow]
  BY DEF TypeOK
<1>2. \A i \in 1..Len(restarts) : restarts[i] \in ToSet(restarts)
  BY <1>1 DEF ToSet
<1> QED
  BY <1>1, <1>2 DEF TypeOK, PatchRow, Creds, IsInjective

\* A step of a PATCH that only moves it to another state, not in the queue.
LEMMA MovesOn ==
  ASSUME IInv, UNCHANGED <<offer, post, answer, entry, ice, restarts, granted>>,
         session' \in BOOLEAN, post.phase = "answered", NEW p \in Patch,
         patch[p].state \in {"idle", "reading"},
         NEW to \in {"reading", "done", "refused"}, Become(p, to)
  PROVE  IInv'
<1>1. patch' \in [Patch -> PatchRow]
  BY DEF IInv, TypeOK, PatchRow, Become
<1>2. /\ \A q \in Patch : patch'[q].creds = patch[q].creds /\ patch'[q].ufrag = patch[q].ufrag
      /\ \A q \in Patch \ {p} : patch'[q].state = patch[q].state
      /\ patch'[p].state = to
  BY DEF IInv, TypeOK, PatchRow, Become
<1>3. {q \in Patch : patch'[q].state = "restarting"} = {q \in Patch : patch[q].state = "restarting"}
  BY <1>2
<1>4. TypeOK'
  BY <1>1, <1>3 DEF IInv, TypeOK, Sections
<1>5. Negotiated'
  BY DEF IInv, Negotiated, Found, Takes, Sections, Media, extractDtlsParameters, buildSdpAnswer
<1>6. \A i \in 1..Len(restarts) : Creds(i)' = Creds(i)
  BY <1>2, Queue DEF IInv, Creds
<1>7. Current' /\ Tagged'
  BY <1>2, <1>6 DEF IInv, Current, Tagged
<1> QED
  BY <1>4, <1>5, <1>7 DEF IInv

LEMMA PatchArrivesKeeps ==
  ASSUME IInv, NEW p \in Patch, NEW b, NEW m, PatchArrives(p, b, m)
  PROVE  IInv'
  BY MovesOn DEF PatchArrives, IInv, TypeOK

\* A PATCH joins the queue of restarts.
LEMMA PatchReadKeeps ==
  ASSUME IInv, NEW p \in Patch, NEW u \in Ufrag \cup {"none", "malformed"}, PatchRead(p, u)
  PROVE  IInv'
<1>0. post.phase = "answered"
  BY DEF IInv, Negotiated, PatchRead
<1>1. CASE Become(p, "refused") /\ UNCHANGED restarts
  BY <1>0, <1>1, MovesOn DEF PatchRead, IInv, TypeOK
<1>2. CASE Become(p, "done") /\ UNCHANGED restarts
  BY <1>0, <1>2, MovesOn DEF PatchRead, IInv, TypeOK
<1>3. CASE /\ u \in Ufrag
           /\ patch' = [patch EXCEPT ![p].state = "restarting", ![p].ufrag = u]
           /\ restarts' = Append(restarts, p)
  <2>1. patch' \in [Patch -> PatchRow]
    BY <1>3 DEF IInv, TypeOK, PatchRow
  <2>2. /\ \A q \in Patch : patch'[q].creds = patch[q].creds
        /\ \A q \in Patch \ {p} : patch'[q] = patch[q]
        /\ patch'[p].state = "restarting" /\ patch'[p].ufrag = u
    BY <1>3 DEF IInv, TypeOK, PatchRow
  <2>3. patch[p].state = "reading" /\ patch[p].creds = 0 /\ p \notin ToSet(restarts)
    BY Queue DEF PatchRead, IInv, Current
  <2>4. /\ restarts' \in Seq(Patch) /\ IsInjective(restarts')
        /\ ToSet(restarts') = ToSet(restarts) \cup {p}
    BY <1>3, <2>3, Appended DEF IInv, TypeOK
  <2>5. ToSet(restarts') = {q \in Patch : patch'[q].state = "restarting"}
    BY <2>2, <2>4 DEF IInv, TypeOK
  <2>6. TypeOK'
    BY <2>1, <2>4, <2>5 DEF PatchRead, IInv, TypeOK, Sections
  <2>7. Negotiated'
    BY <1>0 DEF PatchRead, IInv, Negotiated, Found, Takes, Sections, Media, extractDtlsParameters,
                buildSdpAnswer
  <2>0. PICK n \in Nat : n = Len(restarts)
    BY DEF IInv, TypeOK
  <2>8. /\ n \in Nat /\ Len(restarts') = n + 1
        /\ \A i \in 1..n : restarts'[i] = restarts[i]
        /\ restarts'[n + 1] = p
    BY <1>3, <2>0 DEF IInv, TypeOK
  <2>9. \A i \in 1..n : Creds(i)' = Creds(i)
    <3> TAKE i \in 1..n
    <3>1. restarts[i] \in Patch
      BY <2>0, Queue DEF IInv
    <3>2. restarts'[i] = restarts[i]
      BY <2>8
    <3> QED
      BY <2>2, <3>1, <3>2 DEF Creds
  <2>10. Creds(n + 1)' = 0
    <3>1. Creds(n + 1)' = patch'[p].creds
      BY <2>8 DEF Creds
    <3> QED
      BY <2>2, <2>3, <3>1
  <2>11. \A i \in 1..Len(restarts') : Creds(i)' # 0 => i \in 1..n /\ Creds(i)' = Creds(i)
    <3> TAKE i \in 1..Len(restarts')
    <3>1. i \in 1..n \/ i = n + 1
      BY <2>8
    <3> QED
      BY <2>9, <2>10, <3>1
  <2>12. 1..n \subseteq 1..Len(restarts')
    BY <2>8
  <2>13. Current'
    <3>1. \A q \in Patch :
            /\ patch'[q].state \in {"idle", "reading"} => patch'[q].creds = 0
            /\ patch'[q].state = "restarting" => patch'[q].ufrag \in Ufrag
      BY <1>3, <2>2, <2>3 DEF IInv, Current
    <3>2. ASSUME NEW i \in 1..Len(restarts'), NEW j \in 1..Len(restarts'), i < j, Creds(j)' # 0
          PROVE  Creds(i)' # 0
      <4>1. j \in 1..n /\ Creds(j) # 0
        BY <2>11, <3>2
      <4>2. i \in 1..n
        BY <2>8, <3>2, <4>1
      <4>3. Creds(i) # 0
        BY <2>0, <3>2, <4>1, <4>2 DEF IInv, Current
      <4> QED
        BY <2>9, <4>2, <4>3
    <3>3. UNCHANGED <<post, entry, ice, granted>>
      BY DEF PatchRead
    <3>4. ASSUME NEW i \in 1..Len(restarts'), Creds(i)' # 0,
                 \A j \in 1..Len(restarts') : i < j => Creds(j)' = 0
          PROVE  Creds(i)' = ice'
      <4>1. i \in 1..n /\ Creds(i)' = Creds(i) /\ Creds(i) # 0
        BY <2>11, <3>4
      <4>2. \A j \in 1..n : i < j => Creds(j) = 0
        BY <2>9, <2>12, <3>4
      <4> QED
        BY <2>0, <3>3, <4>1, <4>2 DEF IInv, Current
    <3>5. ASSUME \A i \in 1..Len(restarts') : Creds(i)' = 0
          PROVE  \A i \in 1..Len(restarts) : Creds(i) = 0
      BY <2>0, <2>9, <2>12, <3>5
    <3>6. post'.phase = "answered" /\ (\A i \in 1..Len(restarts') : Creds(i)' = 0)
            => [etag |-> entry'.etag, ufrag |-> entry'.ufrag, creds |-> ice'] \in granted'
      BY <3>3, <3>5 DEF IInv, Current
    <3> QED
      BY <3>1, <3>2, <3>4, <3>6 DEF Current
  <2>14. Tagged'
    BY DEF PatchRead, IInv, Tagged
  <2> QED
    BY <2>6, <2>7, <2>13, <2>14 DEF IInv
<1> QED
  BY <1>1, <1>2, <1>3 DEF PatchRead

\* mediasoup restarts ICE for the first request it has not handled.
LEMMA IceRestartedKeeps ==
  ASSUME IInv, IceRestarted
  PROVE  IInv'
<1> DEFINE n == Len(restarts)
<1>0. PICK i \in 1..n :
        /\ Creds(i) = 0
        /\ \A j \in 1..(i - 1) : Creds(j) # 0
        /\ patch' = [patch EXCEPT ![restarts[i]].creds = ice + 1]
  BY DEF IceRestarted, Creds
<1>1. UNCHANGED <<offer, post, answer, session, entry, restarts, granted>> /\ ice' = ice + 1
  BY DEF IceRestarted
<1>2. restarts[i] \in Patch /\ patch[restarts[i]].state = "restarting" /\ ice \in Nat
  BY Queue DEF IInv, TypeOK
<1>3. /\ patch' \in [Patch -> PatchRow]
      /\ \A q \in Patch : patch'[q].state = patch[q].state /\ patch'[q].ufrag = patch[q].ufrag
      /\ \A q \in Patch \ {restarts[i]} : patch'[q] = patch[q]
      /\ patch'[restarts[i]].creds = ice + 1
  <2>1. PICK p \in Patch : p = restarts[i]
    BY <1>2
  <2>2. patch' = [patch EXCEPT ![p].creds = ice + 1] /\ ice + 1 \in Nat
    BY <1>0, <1>2, <2>1
  <2>3. patch' \in [Patch -> PatchRow]
    BY <2>2 DEF IInv, TypeOK, PatchRow
  <2> QED
    BY <2>1, <2>2, <2>3 DEF IInv, TypeOK, PatchRow
<1>4. {q \in Patch : patch'[q].state = "restarting"} = {q \in Patch : patch[q].state = "restarting"}
  BY <1>3
<1>5. TypeOK'
  BY <1>1, <1>2, <1>3, <1>4 DEF IInv, TypeOK, Sections
<1>6. post.phase = "answered"
  BY <1>2 DEF IInv, Negotiated
<1>7. Negotiated'
  BY <1>1, <1>6 DEF IInv, Negotiated, Found, Takes, Sections, Media, extractDtlsParameters,
                    buildSdpAnswer
<1>8. Creds(i)' = ice + 1
  BY <1>1, <1>3 DEF Creds
<1>9. ASSUME NEW j \in 1..n, j # i
      PROVE  Creds(j)' = Creds(j)
  <2>1. restarts[j] \in Patch \ {restarts[i]}
    BY <1>9, Queue DEF IInv
  <2> QED
    BY <1>1, <1>3, <2>1 DEF Creds
<1>10. Current'
  <2>1. \A q \in Patch :
          /\ patch'[q].state \in {"idle", "reading"} => patch'[q].creds = 0
          /\ patch'[q].state = "restarting" => patch'[q].ufrag \in Ufrag
    BY <1>2, <1>3 DEF IInv, Current
  <2>2. ASSUME NEW a \in 1..n, NEW b \in 1..n, a < b, Creds(b)' # 0
        PROVE  Creds(a)' # 0
    <3>1. CASE a = i
      BY <1>2, <1>8, <3>1
    <3>2. CASE b = i
      <4>1. a \in 1..(i - 1)
        BY <2>2, <3>2
      <4> QED
        BY <1>0, <1>9, <2>2, <3>2, <4>1
    <3>3. CASE a # i /\ b # i
      BY <1>9, <2>2, <3>3 DEF IInv, Current
    <3> QED
      BY <3>1, <3>2, <3>3
  <2>3. ASSUME NEW a \in 1..n, Creds(a)' # 0, \A b \in 1..n : a < b => Creds(b)' = 0
        PROVE  Creds(a)' = ice'
    <3>1. CASE a = i
      BY <1>1, <1>8, <3>1
    <3>2. CASE a < i
      BY <1>2, <1>8, <2>3, <3>2
    <3>3. CASE i < a
      <4>1. Creds(a) # 0
        BY <1>9, <2>3, <3>3
      <4>2. Creds(i) # 0
        BY <3>3, <4>1 DEF IInv, Current
      <4> QED
        BY <1>0, <4>2
    <3> QED
      BY <3>1, <3>2, <3>3
  <2>4. ~(\A a \in 1..n : Creds(a)' = 0)
    BY <1>2, <1>8
  <2> QED
    BY <1>1, <2>1, <2>2, <2>3, <2>4 DEF Current
<1>11. Tagged'
  BY <1>1 DEF IInv, Tagged
<1> QED
  BY <1>5, <1>7, <1>10, <1>11 DEF IInv

\* The head of the queue is answered, whatever the answer: the queue and the
\* PATCHes after it.
LEMMA Answered ==
  ASSUME IInv, NEW p \in Patch, restarts # <<>>, p = Head(restarts),
         restarts' = Tail(restarts), NEW to \in {"done", "refused"}, Become(p, to)
  PROVE  /\ post.phase = "answered"
         /\ restarts' \in Seq(Patch) /\ IsInjective(restarts')
         /\ ToSet(restarts') = {q \in Patch : patch'[q].state = "restarting"}
         /\ patch' \in [Patch -> PatchRow]
         /\ \A q \in Patch :
              /\ patch'[q].state \in {"idle", "reading"} => patch'[q].creds = 0
              /\ patch'[q].state = "restarting" => patch'[q].ufrag \in Ufrag
         /\ Len(restarts) \in Nat \ {0} /\ Len(restarts') = Len(restarts) - 1
         /\ Creds(1) = patch[p].creds /\ patch[p].ufrag \in Ufrag
         /\ \A i \in 1..Len(restarts') : Creds(i)' = Creds(i + 1)
<1>1. /\ restarts' \in Seq(Patch) /\ IsInjective(restarts')
      /\ ToSet(restarts') = ToSet(restarts) \ {p}
  BY Tailed DEF IInv, TypeOK
<1>2. /\ Len(restarts) \in Nat \ {0} /\ p = restarts[1] /\ Len(restarts') = Len(restarts) - 1
      /\ \A i \in 1..Len(restarts') : restarts'[i] = restarts[i + 1]
  BY DEF IInv, TypeOK
<1>3. /\ patch' \in [Patch -> PatchRow]
      /\ \A q \in Patch : patch'[q].creds = patch[q].creds /\ patch'[q].ufrag = patch[q].ufrag
      /\ \A q \in Patch \ {p} : patch'[q].state = patch[q].state
      /\ patch'[p].state = to
  BY DEF IInv, TypeOK, PatchRow, Become
<1>4. patch[p].state = "restarting" /\ patch[p].ufrag \in Ufrag
  BY <1>2, Queue DEF IInv, Current
<1>5. ToSet(restarts') = {q \in Patch : patch'[q].state = "restarting"}
  BY <1>1, <1>3 DEF IInv, TypeOK
<1>6. \A i \in 1..Len(restarts') : Creds(i)' = Creds(i + 1)
  <2> TAKE i \in 1..Len(restarts')
  <2>1. i + 1 \in 1..Len(restarts) /\ restarts'[i] = restarts[i + 1]
    BY <1>2
  <2>2. restarts[i + 1] \in Patch
    BY <2>1, Queue DEF IInv
  <2> QED
    BY <1>3, <2>1, <2>2 DEF Creds
<1>7. \A q \in Patch :
        /\ patch'[q].state \in {"idle", "reading"} => patch'[q].creds = 0
        /\ patch'[q].state = "restarting" => patch'[q].ufrag \in Ufrag
  BY <1>3 DEF IInv, Current
<1>8. post.phase = "answered"
  BY <1>4 DEF IInv, Negotiated
<1>9. Creds(1) = patch[p].creds
  BY <1>2 DEF Creds
<1> QED
  BY <1>1, <1>2, <1>3, <1>4, <1>5, <1>6, <1>7, <1>8, <1>9

\* The first request fails, so that mediasoup has handled none of the others.
LEMMA RestartFailsKeeps ==
  ASSUME IInv, NEW p \in Patch, restarts # <<>>, RestartFails(p)
  PROVE  IInv'
<1>1. /\ post.phase = "answered"
      /\ restarts' \in Seq(Patch) /\ IsInjective(restarts')
      /\ ToSet(restarts') = {q \in Patch : patch'[q].state = "restarting"}
      /\ patch' \in [Patch -> PatchRow]
      /\ \A q \in Patch :
           /\ patch'[q].state \in {"idle", "reading"} => patch'[q].creds = 0
           /\ patch'[q].state = "restarting" => patch'[q].ufrag \in Ufrag
      /\ Len(restarts) \in Nat \ {0} /\ Len(restarts') = Len(restarts) - 1
      /\ Creds(1) = 0
      /\ \A i \in 1..Len(restarts') : Creds(i)' = Creds(i + 1)
  BY Answered DEF RestartFails
<1>2. UNCHANGED <<offer, post, answer, session, entry, ice, granted>>
  BY DEF RestartFails
<1>3. \A i \in 1..Len(restarts) : Creds(i) = 0
  BY <1>1 DEF IInv, Current
<1>4. \A i \in 1..Len(restarts') : Creds(i)' = 0
  BY <1>1, <1>3
<1>5. TypeOK'
  BY <1>1, <1>2 DEF IInv, TypeOK, Sections
<1>6. Negotiated'
  BY <1>1, <1>2 DEF IInv, Negotiated, Found, Takes, Sections, Media, extractDtlsParameters,
                    buildSdpAnswer
<1>7. [etag |-> entry.etag, ufrag |-> entry.ufrag, creds |-> ice] \in granted
  BY <1>1, <1>3 DEF IInv, Current
<1>8. Current'
  BY <1>1, <1>2, <1>4, <1>7 DEF Current
<1>9. Tagged'
  BY <1>2 DEF IInv, Tagged
<1> QED
  BY <1>5, <1>6, <1>8, <1>9 DEF IInv

\* The answer gives a tag no answer had, and the credentials it is for.
LEMMA PatchAnsweredKeeps ==
  ASSUME IInv, NEW p \in Patch, restarts # <<>>, PatchAnswered(p)
  PROVE  IInv'
<1> DEFINE tag == Cardinality(granted) + 1
           g == [etag |-> tag, ufrag |-> patch[p].ufrag, creds |-> patch[p].creds]
<1>1. /\ post.phase = "answered"
      /\ restarts' \in Seq(Patch) /\ IsInjective(restarts')
      /\ ToSet(restarts') = {q \in Patch : patch'[q].state = "restarting"}
      /\ patch' \in [Patch -> PatchRow]
      /\ \A q \in Patch :
           /\ patch'[q].state \in {"idle", "reading"} => patch'[q].creds = 0
           /\ patch'[q].state = "restarting" => patch'[q].ufrag \in Ufrag
      /\ Len(restarts) \in Nat \ {0} /\ Len(restarts') = Len(restarts) - 1
      /\ Creds(1) = patch[p].creds /\ patch[p].ufrag \in Ufrag
      /\ \A i \in 1..Len(restarts') : Creds(i)' = Creds(i + 1)
  BY Answered DEF PatchAnswered
<1>2. /\ UNCHANGED <<offer, post, answer, session, ice>>
      /\ entry' = [entry EXCEPT !.etag = tag, !.ufrag = patch[p].ufrag]
      /\ granted' = granted \cup {g} /\ patch[p].creds # 0
  BY DEF PatchAnswered
<1>3. Cardinality(granted) \in Nat /\ IsFiniteSet(granted)
  BY FS_CardinalityType DEF IInv, Tagged
<1>4. /\ entry' \in [etag : Nat, ufrag : Ufrag \cup {First}, bearer : BOOLEAN]
      /\ entry'.etag = tag /\ entry'.ufrag = patch[p].ufrag
  <2>1. tag \in Nat
    BY <1>3
  <2> HIDE DEF tag, g
  <2> QED
    BY <1>1, <1>2, <2>1 DEF IInv, TypeOK
<1>5. patch[p].creds \in Nat
  BY DEF IInv, TypeOK, PatchRow
<1>6. granted' \subseteq [etag : Nat, ufrag : Ufrag \cup {First}, creds : Nat]
  BY <1>1, <1>2, <1>3, <1>5 DEF IInv, TypeOK
<1>7. TypeOK'
  BY <1>1, <1>2, <1>4, <1>6 DEF IInv, TypeOK, Sections
<1>8. Negotiated'
  BY <1>1, <1>2 DEF IInv, Negotiated, Found, Takes, Sections, Media, extractDtlsParameters,
                    buildSdpAnswer
<1>9. Current'
  <2>1. ASSUME NEW i \in 1..Len(restarts'), NEW j \in 1..Len(restarts'), i < j, Creds(j)' # 0
        PROVE  Creds(i)' # 0
    <3>1. i + 1 \in 1..Len(restarts) /\ j + 1 \in 1..Len(restarts) /\ i + 1 < j + 1
      BY <1>1, <2>1
    <3>2. Creds(i)' = Creds(i + 1) /\ Creds(j)' = Creds(j + 1)
      BY <1>1
    <3> QED
      BY <2>1, <3>1, <3>2 DEF IInv, Current
  <2>2. ASSUME NEW i \in 1..Len(restarts'), Creds(i)' # 0,
               \A j \in 1..Len(restarts') : i < j => Creds(j)' = 0
        PROVE  Creds(i)' = ice'
    <3>1. i + 1 \in 1..Len(restarts) /\ Creds(i)' = Creds(i + 1)
      BY <1>1
    <3>2. ASSUME NEW j \in 1..Len(restarts), i + 1 < j
          PROVE  Creds(j) = 0
      <4>1. j - 1 \in 1..Len(restarts') /\ i < j - 1 /\ (j - 1) + 1 = j
        BY <1>1, <3>2
      <4>2. Creds(j - 1)' = 0
        BY <2>2, <4>1
      <4>3. Creds(j - 1)' = Creds((j - 1) + 1)
        BY <1>1, <4>1
      <4> QED
        BY <4>1, <4>2, <4>3
    <3> QED
      BY <1>2, <2>2, <3>1, <3>2 DEF IInv, Current
  <2>3. ASSUME \A i \in 1..Len(restarts') : Creds(i)' = 0
        PROVE  patch[p].creds = ice
    <3>1. ASSUME NEW j \in 1..Len(restarts), 1 < j
          PROVE  Creds(j) = 0
      <4>1. j - 1 \in 1..Len(restarts') /\ (j - 1) + 1 = j
        BY <1>1, <3>1
      <4>2. Creds(j - 1)' = Creds((j - 1) + 1)
        BY <1>1, <4>1
      <4> QED
        BY <2>3, <4>1, <4>2
    <3>2. 1 \in 1..Len(restarts) /\ Creds(1) # 0
      BY <1>1, <1>2
    <3> QED
      BY <1>1, <3>1, <3>2 DEF IInv, Current
  <2>4. (\A i \in 1..Len(restarts') : Creds(i)' = 0)
          => [etag |-> entry'.etag, ufrag |-> entry'.ufrag, creds |-> ice'] \in granted'
    BY <1>2, <1>4, <2>3
  <2> QED
    BY <1>1, <2>1, <2>2, <2>4 DEF Current
<1>10. Tagged'
  <2>1. g \notin granted /\ g.etag = tag
    BY <1>3 DEF IInv, Tagged
  <2>2. IsFiniteSet(granted') /\ Cardinality(granted') = tag
    <3> HIDE DEF g
    <3>1. IsFiniteSet(granted \cup {g}) /\ Cardinality(granted \cup {g}) = Cardinality(granted) + 1
      BY <1>3, <2>1, FS_AddElement, Zenon
    <3> QED
      BY <1>2, <3>1
  <2>3. \A h \in granted : h.etag <= Cardinality(granted) /\ h.etag \in Nat
    BY DEF IInv, Tagged, TypeOK
  <2> HIDE DEF g
  <2>4. \A h \in granted' : h.etag <= tag
    BY <1>2, <1>3, <2>1, <2>3
  <2>5. \A h, k \in granted' : h.etag = k.etag => h = k
    BY <1>2, <1>3, <2>1, <2>3 DEF IInv, Tagged
  <2> QED
    BY <2>2, <2>4, <2>5 DEF Tagged
<1> QED
  BY <1>7, <1>8, <1>9, <1>10 DEF IInv

\* The end of the session touches nothing else.
LEMMA EndKeeps ==
  ASSUME IInv, session' = FALSE, UNCHANGED <<offer, post, answer, resource>>
  PROVE  IInv'
<1> USE DEF resource
<1>1. TypeOK'
  BY DEF IInv, TypeOK, Sections
<1>2. Negotiated'
  BY DEF IInv, Negotiated, Found, Takes, Sections, Media, extractDtlsParameters, buildSdpAnswer
<1>3. Current' /\ Tagged'
  BY DEF IInv, Current, Tagged, Creds
<1> QED
  BY <1>1, <1>2, <1>3 DEF IInv

LEMMA Inductive == IInv /\ [Next]_vars => IInv'
<1> SUFFICES ASSUME IInv, [Next]_vars PROVE IInv'
  OBVIOUS
<1>1. CASE Connected
  <2>1. Found(post.byKind) /\ post.byKind \in [Kind -> 0..MaxSections]
    BY DEF IInv, Negotiated, TypeOK, Post
  <2> QED
    BY <1>1, <2>1, NegotiateKeeps DEF Connected
<1>2. CASE Produced
  <2> DEFINE byKind == [post.byKind EXCEPT ![Media(post.at).kind] = post.at]
  <2>1. post.byKind \in [Kind -> 0..MaxSections] /\ post.at \in 0..MaxSections
    BY DEF IInv, TypeOK, Post
  <2>2. /\ Found(post.byKind) /\ Takes(post.at) /\ post.remote = extractDtlsParameters
        /\ Media(post.at).kind \in Kind
    BY <1>2, Sectioned DEF IInv, Negotiated, Produced, Takes
  <2>3. byKind \in [Kind -> 0..MaxSections] /\ Found(byKind)
    BY <2>1, <2>2 DEF Found
  <2>4. Negotiate(post.at + 1, byKind, extractDtlsParameters)
    BY <1>2, <2>2 DEF Produced
  <2> HIDE DEF byKind
  <2> QED
    BY <1>2, <2>3, <2>4, NegotiateKeeps DEF Produced
<1>3. CASE PostFails
  BY <1>3, RefuseKeeps DEF PostFails
<1>4. CASE SessionEnds
  BY <1>4, EndKeeps DEF SessionEnds
<1>5. ASSUME NEW p \in Patch, NEW b \in Bearer, NEW m \in IfMatch, PatchArrives(p, b, m)
      PROVE  IInv'
  BY <1>5, PatchArrivesKeeps
<1>6. ASSUME NEW p \in Patch, NEW u \in Ufrag \cup {"none", "malformed"}, PatchRead(p, u)
      PROVE  IInv'
  BY <1>6, PatchReadKeeps
<1>7. CASE IceRestarted
  BY <1>7, IceRestartedKeeps
<1>8. ASSUME NEW p \in Patch, restarts # <<>>, RestartFails(p)
      PROVE  IInv'
  BY <1>8, RestartFailsKeeps
<1>9. ASSUME NEW p \in Patch, restarts # <<>>, PatchAnswered(p)
      PROVE  IInv'
  BY <1>9, PatchAnsweredKeeps
<1>10. ASSUME NEW b \in Bearer, WhipDelete(b)
       PROVE  IInv'
  BY <1>10, EndKeeps DEF WhipDelete
<1>11. CASE UNCHANGED vars
  <2> USE <1>11 DEF vars
  <2>1. TypeOK'
    BY DEF IInv, TypeOK, Sections
  <2>2. Negotiated'
    BY DEF IInv, Negotiated, Found, Takes, Sections, Media, extractDtlsParameters, buildSdpAnswer
  <2>3. Current' /\ Tagged'
    BY DEF IInv, Current, Tagged, Creds
  <2> QED
    BY <2>1, <2>2, <2>3 DEF IInv
<1> QED
  BY <1>1, <1>2, <1>3, <1>4, <1>5, <1>6, <1>7, <1>8, <1>9, <1>10, <1>11 DEF Next

LEMMA Invariant == Spec => []IInv
  BY Initially, Inductive, PTL DEF Spec

-----------------------------------------------------------------------------
(* The theorems                                                            *)

\* Every variable has its type; the queue of restarts holds exactly the PATCHes
\* that wait for one, each once.
THEOREM WhipTypeCorrect == Spec => []TypeOK
<1>1. IInv => TypeOK
  BY DEF IInv
<1> QED
  BY <1>1, Invariant, PTL

\* What the answered sections are made of.
LEMMA AnswerShape ==
  ASSUME IInv, post.phase = "answered"
  PROVE  /\ answer.group = {i \in Sections : post.byKind[Media(i).kind] # 0}
         /\ DOMAIN answer.media = Sections
         /\ \A i \in Sections : answer.media[i] =
              IF i \in answer.group
              THEN extractRtpParameters(Media(post.byKind[Media(i).kind])) ELSE <<>>
         /\ answer.setup = IF offer.setup = "passive" THEN "active" ELSE "passive"
  BY DEF IInv, Negotiated, buildSdpAnswer

\* AnswerIsAgreed (handleWhipPost and buildSdpAnswer, webrtc.js:245-287): of an
\* offer with one section of a kind, the answer accepts exactly the sections
\* that have a producer, with codecs offered there, in the DTLS role connected.
THEOREM AnswerIsAgreedHolds == Spec => []AnswerIsAgreed
<1>1. IInv => AnswerIsAgreed
  <2> SUFFICES ASSUME IInv, post.phase = "answered"
               PROVE  /\ (answer.setup = "active") <=> (post.remote = "server")
                      /\ Plain => /\ answer.group = {post.byKind[k] : k \in Kind} \ {0}
                                  /\ \A i \in Sections :
                                       /\ i \in answer.group <=> answer.media[i] # <<>>
                                       /\ ToSet(answer.media[i]) \subseteq ToSet(Media(i).codecs)
    BY DEF AnswerIsAgreed
  <2>1. (answer.setup = "active") <=> (post.remote = "server")
    BY AnswerShape DEF IInv, Negotiated, extractDtlsParameters
  <2>2. ASSUME Plain
        PROVE  /\ answer.group = {post.byKind[k] : k \in Kind} \ {0}
               /\ \A i \in Sections :
                    /\ i \in answer.group <=> answer.media[i] # <<>>
                    /\ ToSet(answer.media[i]) \subseteq ToSet(Media(i).codecs)
    <3>1. \A k \in Kind : post.byKind[k] # 0 => Takes(post.byKind[k]) /\ Media(post.byKind[k]).kind = k
      BY DEF IInv, Negotiated, Found
    <3>2. \A i \in Sections : Media(i) \in Section /\ Media(i).kind \in Kind
      BY Sectioned DEF IInv
    <3>3. ASSUME NEW i \in answer.group
          PROVE  post.byKind[Media(i).kind] = i /\ Takes(i)
      <4>1. i \in Sections /\ post.byKind[Media(i).kind] # 0
        BY AnswerShape
      <4> DEFINE j == post.byKind[Media(i).kind]
      <4>2. Takes(j) /\ j \in Sections /\ Media(j).kind = Media(i).kind
        BY <3>1, <3>2, <4>1 DEF Takes
      <4> QED
        BY <2>2, <4>1, <4>2 DEF Plain
    <3>4. ASSUME NEW k \in Kind, post.byKind[k] # 0
          PROVE  post.byKind[k] \in answer.group
      <4>1. post.byKind[k] \in Sections /\ Media(post.byKind[k]).kind = k
        BY <3>1, <3>4 DEF Takes
      <4> QED
        BY <3>4, <4>1, AnswerShape
    <3>5. 0 \notin Sections
      BY Sectioned DEF IInv
    <3>6. answer.group = {post.byKind[k] : k \in Kind} \ {0}
      <4>1. ASSUME NEW i \in answer.group
            PROVE  i \in {post.byKind[k] : k \in Kind} \ {0}
        <5>1. i \in Sections
          BY AnswerShape
        <5> QED
          BY <3>2, <3>3, <3>5, <5>1
      <4> QED
        BY <3>4, <4>1
    <3>7. ASSUME NEW i \in Sections
          PROVE  /\ i \in answer.group <=> answer.media[i] # <<>>
                 /\ ToSet(answer.media[i]) \subseteq ToSet(Media(i).codecs)
      <4>1. CASE i \in answer.group
        <5>1. answer.media[i] = extractRtpParameters(Media(i)) /\ extractRtpParameters(Media(i)) # <<>>
          BY <3>3, <4>1, AnswerShape DEF Takes
        <5> QED
          BY <3>2, <4>1, <5>1, OfTheSection
      <4>2. CASE i \notin answer.group
        <5>1. answer.media[i] = <<>>
          BY <4>2, AnswerShape
        <5> QED
          BY <4>2, <5>1 DEF ToSet
      <4> QED
        BY <4>1, <4>2
    <3> QED
      BY <3>6, <3>7
  <2> QED
    BY <2>1, <2>2
<1> QED
  BY <1>1, Invariant, PTL

\* RtxHasItsCodec (extractRtpParameters, sdp.js:138-143): a retransmission codec
\* is answered beside the codec it repairs.
THEOREM RtxHasItsCodecHolds == Spec => []RtxHasItsCodec
<1>1. IInv => RtxHasItsCodec
  <2> SUFFICES ASSUME IInv, NEW i \in DOMAIN answer.media, NEW c \in ToSet(answer.media[i]), c.name = "rtx"
               PROVE  \E d \in ToSet(answer.media[i]) : d.pt = c.apt /\ d.name \in Supported
    BY DEF RtxHasItsCodec
  <2>1. answer.media[i] # <<>>
    BY DEF ToSet
  <2>2. post.phase = "answered"
    <3>1. ASSUME answer = NoAnswer PROVE FALSE
      <4>1. DOMAIN answer.media = {}
        BY <3>1 DEF NoAnswer
      <4> QED
        BY <4>1
    <3> QED
      BY <3>1 DEF IInv, Negotiated
  <2>3. i \in Sections /\ i \in answer.group
    BY <2>1, <2>2, AnswerShape
  <2> DEFINE j == post.byKind[Media(i).kind]
  <2>4. answer.media[i] = extractRtpParameters(Media(j)) /\ j # 0
    BY <2>2, <2>3, AnswerShape
  <2>5. j \in Sections
    BY <2>3, <2>4, Sectioned DEF IInv, Negotiated, Found, Takes
  <2>6. Media(j) \in Section
    BY <2>5, Sectioned DEF IInv
  <2> HIDE DEF j
  <2> QED
    BY <2>4, <2>6, OfTheSection
<1> QED
  BY <1>1, Invariant, PTL

\* TagNamesIceSession (handleWhipPatch, webrtc.js:348-364): with any number of
\* PATCHes at once, an entity-tag names one ICE session, and the one in force is
\* the transport's when no restart is in flight.
THEOREM TagNamesIceSessionHolds == Spec => []TagNamesIceSession
<1>1. IInv => TagNamesIceSession
  BY DEF IInv, Current, Tagged, TagNamesIceSession
<1> QED
  BY <1>1, Invariant, PTL
=============================================================================
