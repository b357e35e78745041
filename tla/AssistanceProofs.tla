--------------------------- MODULE AssistanceProofs ---------------------------
(***************************************************************************)
(* Proofs about Assistance, for any consumers, generations, limits and     *)
(* times, and however requests are delayed, given up and answered.         *)
(***************************************************************************)
EXTENDS Assistance, TLAPS

Statuses == Denials \cup {"none", "pending", "accepted", "observed", "applied", "unavailable", "unknown"}
MaybeToken == Tokens \cup {None}

HostType == [gen : Nat, enabled : BOOLEAN, ready : BOOLEAN, offers : [Tokens -> OfferType],
             active : MaybeToken, authority : AuthorityType, saved : AuthorityType,
             resuming : BOOLEAN, committing : BOOLEAN]
GrantType == [token : MaybeToken, expires : Nat, secret : MaybeToken,
              by : (Kinds \cup {"none"}) \X Nat]
AnswerType == [status : Statuses, token : MaybeToken, expires : Nat, secret : MaybeToken]
CallType == [op : Kinds, n : Nat, c : Consumers, gen : Nat, token : MaybeToken, deadline : Nat,
             expect : Nat, secret : MaybeToken, from : GrantType, checked : AuthorityType,
             at : {"sent", "proving", "preparing", "answered", "lost"}, waits : BOOLEAN,
             answer : AnswerType]
PeerType == [gen : Nat, grant : GrantType, ended : SUBSET Tokens, unresolved : BOOLEAN,
             disconnected : BOOLEAN, resuming : BOOLEAN, doubtful : BOOLEAN,
             tried : SUBSET Nat, asked : SUBSET Tokens, owed : SUBSET Nat]

-----------------------------------------------------------------------------
(* What is known of a call and of a consumer. *)

\* An offer that is named as pending or accepted is one; an action is prepared
\* for an offer; only a resumption waits for proofs.
AnswerOK(a) == a \in AnswerType /\ (a.status \in {"pending", "accepted"} => a.token \in Tokens)

CallOK(k) ==
  /\ k \in CallType /\ AnswerOK(k.answer)
  /\ k.at = "preparing" => k.op = "invoke" /\ k.token \in Tokens
  /\ k.at = "proving" => k.op = "resume"

\* A grant is of an offer, and never of one the consumer ended.
PeerOK(p) ==
  /\ p \in PeerType
  /\ p.grant # NoGrant => p.grant.token \in Tokens
  /\ p.grant.token \notin p.ended
  /\ p.disconnected => p.grant = NoGrant

Typed ==
  /\ now \in Nat /\ version \in Nat /\ tokens \in Tokens \cup {0}
  /\ host \in HostType
  /\ made \in [Consumers -> [Kinds -> Nat]]
  /\ peer \in [Consumers -> PeerType]
  /\ \A c \in Consumers : PeerOK(peer[c])
  /\ \A k \in calls : CallOK(k)

LEMMA Nulls ==
  /\ None \notin Tokens /\ None \notin Consumers /\ Tokens \subseteq Nat
  /\ OfferTTL \in Nat /\ GrantTTL \in Nat /\ RequestTTL \in Nat
  /\ NoOffer \in OfferType /\ NoAuthority \in AuthorityType /\ NoGrant \in GrantType
BY BoundsAssumption DEF None, Tokens, NoOffer, NoAuthority, NoGrant, OfferType, AuthorityType,
   GrantType, MaybeToken

-----------------------------------------------------------------------------
(* The supplier's methods keep the type of its state. *)

LEMMA SaveResumeType ==
  ASSUME NEW h \in HostType, NEW a \in AuthorityType
  PROVE  SaveResume(h, a) \in HostType
BY DEF SaveResume, HostType

\* What finish does: the offers of the set that were not ended are, and with the
\* active one goes the authority.
Finishes(h, set, g) ==
  /\ g \in HostType
  /\ g.gen = h.gen /\ g.enabled = h.enabled /\ g.ready = h.ready
  /\ g.resuming = h.resuming /\ g.committing = h.committing
  /\ \A t \in Tokens :
       /\ g.offers[t].consumer = h.offers[t].consumer
       /\ g.offers[t].deadline = h.offers[t].deadline
       /\ g.offers[t].consent = h.offers[t].consent
       /\ g.offers[t].status = IF t \in set /\ h.offers[t].status \in {"pending", "accepted"}
                               THEN "ended" ELSE h.offers[t].status
  /\ IF h.active \in set /\ h.offers[h.active].status \in {"pending", "accepted"}
     THEN /\ g.active = None /\ g.authority = NoAuthority
          /\ g.saved = IF h.gen \in Saving THEN NoAuthority ELSE h.saved
     ELSE /\ g.active = h.active /\ g.authority = h.authority /\ g.saved = h.saved

LEMMA FinishFinishes ==
  ASSUME NEW h \in HostType, NEW set \in SUBSET Tokens
  PROVE  Finishes(h, set, Finish(h, set))
<1> DEFINE gone == {t \in set : h.offers[t].status \in {"pending", "accepted"}}
           offers == [t \in Tokens |-> IF t \in gone THEN [h.offers[t] EXCEPT !.status = "ended"] ELSE h.offers[t]]
           g == [h EXCEPT !.offers = offers]
           f == SaveResume([g EXCEPT !.active = None], NoAuthority)
<1>1. /\ offers \in [Tokens -> OfferType]
      /\ \A t \in Tokens :
           /\ offers[t].consumer = h.offers[t].consumer
           /\ offers[t].deadline = h.offers[t].deadline
           /\ offers[t].consent = h.offers[t].consent
           /\ offers[t].status = IF t \in gone THEN "ended" ELSE h.offers[t].status
  <2>1. \A t \in Tokens : h.offers[t] \in OfferType
    BY DEF HostType
  <2>2. \A o \in OfferType : /\ [o EXCEPT !.status = "ended"] \in OfferType
                             /\ [o EXCEPT !.status = "ended"].consumer = o.consumer
                             /\ [o EXCEPT !.status = "ended"].deadline = o.deadline
                             /\ [o EXCEPT !.status = "ended"].consent = o.consent
                             /\ [o EXCEPT !.status = "ended"].status = "ended"
    BY DEF OfferType
  <2> QED BY <2>1, <2>2
<1>2. Finish(h, set) = IF h.active \in gone THEN f ELSE g
  <2>1. g.offers = offers /\ \A t \in Tokens : h.offers[t] = h.offers[t]
    BY DEF HostType
  <2>2. [h EXCEPT !.offers = [t \in Tokens |-> IF t \in gone THEN [@[t] EXCEPT !.status = "ended"] ELSE @[t]]] = g
    BY DEF HostType
  <2> QED BY <2>2 DEF Finish
<1> HIDE DEF offers
<1>3. /\ g \in HostType /\ g.gen = h.gen /\ g.enabled = h.enabled /\ g.ready = h.ready
      /\ g.resuming = h.resuming /\ g.committing = h.committing /\ g.offers = offers
      /\ g.active = h.active /\ g.authority = h.authority /\ g.saved = h.saved
  BY <1>1 DEF HostType
<1> HIDE DEF g
<1>4. /\ f \in HostType /\ f.gen = h.gen /\ f.enabled = h.enabled /\ f.ready = h.ready
      /\ f.resuming = h.resuming /\ f.committing = h.committing /\ f.offers = offers
      /\ f.active = None /\ f.authority = NoAuthority
      /\ f.saved = IF h.gen \in Saving THEN NoAuthority ELSE h.saved
  BY <1>3, Nulls DEF SaveResume, HostType, MaybeToken
<1> HIDE DEF f
<1>5. \A t \in Tokens :
        t \in gone <=> t \in set /\ h.offers[t].status \in {"pending", "accepted"}
  OBVIOUS
<1>6. h.active \in gone <=>
        h.active \in set /\ h.offers[h.active].status \in {"pending", "accepted"}
  OBVIOUS
<1> HIDE DEF gone
<1>7. CASE h.active \in gone
  <2>1. Finish(h, set) = f
    BY <1>2, <1>7
  <2> QED BY <1>1, <1>4, <1>5, <1>6, <1>7, <2>1 DEF Finishes
<1>8. CASE h.active \notin gone
  <2>1. Finish(h, set) = g
    BY <1>2, <1>8
  <2> QED BY <1>1, <1>3, <1>5, <1>6, <1>8, <2>1 DEF Finishes
<1> QED BY <1>7, <1>8

LEMMA ExpireFinishes ==
  ASSUME NEW h \in HostType
  PROVE  Finishes(h, {t \in Tokens : now >= h.offers[t].deadline}, Expire(h))
BY FinishFinishes DEF Expire

LEMMA EndAllFacts ==
  ASSUME NEW h \in HostType
  PROVE  \E g : /\ Finishes(h, Tokens, g)
                /\ EndAll(h) = SaveResume(g, NoAuthority)
                /\ EndAll(h) \in HostType
<1> DEFINE g == Finish(h, Tokens)
<1>1. Finishes(h, Tokens, g)
  BY FinishFinishes
<1>2. SaveResume(g, NoAuthority) \in HostType
  <2>1. g \in HostType
    BY <1>1 DEF Finishes
  <2> QED BY <2>1, SaveResumeType, Nulls
<1> QED BY <1>1, <1>2 DEF EndAll

LEMMA RememberType ==
  ASSUME NEW h \in HostType, NEW t \in Tokens, NEW secret \in Tokens
  PROVE  Remember(h, t, secret) \in HostType
<1>1. h.offers[t] \in OfferType
  BY DEF HostType
<1>2. [consumer |-> h.offers[t].consumer, expires |-> h.offers[t].deadline, secret |-> secret,
       consent |-> h.offers[t].consent] \in AuthorityType
  BY <1>1 DEF OfferType, AuthorityType
<1> QED BY <1>2, SaveResumeType DEF Remember

LEMMA FlagTypes ==
  ASSUME NEW h \in HostType, NEW b \in BOOLEAN
  PROVE  /\ [h EXCEPT !.enabled = b] \in HostType /\ [h EXCEPT !.ready = b] \in HostType
         /\ [h EXCEPT !.resuming = b] \in HostType /\ [h EXCEPT !.committing = b] \in HostType
BY DEF HostType

\* A host with one offer changed and perhaps another one active.
LEMMA OffersType ==
  ASSUME NEW h \in HostType, NEW t \in Tokens, NEW o \in OfferType, NEW u \in MaybeToken
  PROVE  /\ [h EXCEPT !.offers[t] = o] \in HostType
         /\ [h EXCEPT !.active = u, !.offers[t] = o] \in HostType
<1>1. [h.offers EXCEPT ![t] = o] \in [Tokens -> OfferType]
  BY DEF HostType
<1> QED BY <1>1 DEF HostType

-----------------------------------------------------------------------------
(* Requests and their answers. *)

LEMMA PlainOK ==
  ASSUME NEW status \in Statuses \ {"pending", "accepted"}
  PROVE  AnswerOK(Plain(status))
BY DEF AnswerOK, AnswerType, Plain, MaybeToken, None

LEMMA StatusOfOK ==
  ASSUME NEW h \in HostType, NEW t \in Tokens
  PROVE  AnswerOK(StatusOf(h, t))
<1>1. h.offers[t] \in OfferType /\ h.authority \in AuthorityType
  BY DEF HostType
<1> QED BY <1>1, Nulls DEF AnswerOK, AnswerType, StatusOf, Plain, MaybeToken, OfferType, AuthorityType,
           Statuses, Denials, None

\* A request moved on by the supplier or the consumer keeps what it asks.
SameRequest(j, k) ==
  /\ j.op = k.op /\ j.n = k.n /\ j.c = k.c /\ j.gen = k.gen /\ j.token = k.token
  /\ j.deadline = k.deadline /\ j.expect = k.expect /\ j.secret = k.secret /\ j.from = k.from

ToAnswered(k, a) == [k EXCEPT !.at = "answered", !.answer = a]
ToProving(k, a) == [k EXCEPT !.at = "proving", !.checked = a]
ToPreparing(k) == [k EXCEPT !.at = "preparing"]
ToLost(k) == [k EXCEPT !.at = "lost"]
ToUnheard(k) == [k EXCEPT !.waits = FALSE]

LEMMA MovedOn ==
  ASSUME NEW k, CallOK(k)
  PROVE  /\ \A a : AnswerOK(a) =>
              /\ CallOK(ToAnswered(k, a)) /\ SameRequest(ToAnswered(k, a), k)
              /\ ToAnswered(k, a).at = "answered" /\ ToAnswered(k, a).answer = a
         /\ k.op = "resume" => \A a \in AuthorityType :
              /\ CallOK(ToProving(k, a)) /\ SameRequest(ToProving(k, a), k)
              /\ ToProving(k, a).at = "proving" /\ ToProving(k, a).checked = a
         /\ k.op = "invoke" /\ k.token \in Tokens =>
              /\ CallOK(ToPreparing(k)) /\ SameRequest(ToPreparing(k), k)
              /\ ToPreparing(k).at = "preparing"
         /\ CallOK(ToLost(k)) /\ SameRequest(ToLost(k), k) /\ ToLost(k).at = "lost"
         /\ CallOK(ToUnheard(k)) /\ SameRequest(ToUnheard(k), k) /\ ToUnheard(k).at = k.at
         /\ ToUnheard(k).answer = k.answer /\ ToUnheard(k).checked = k.checked
<1>1. k \in CallType /\ AnswerOK(k.answer)
  BY DEF CallOK
<1>2. ASSUME NEW a, AnswerOK(a)
      PROVE  /\ CallOK(ToAnswered(k, a)) /\ SameRequest(ToAnswered(k, a), k)
             /\ ToAnswered(k, a).at = "answered" /\ ToAnswered(k, a).answer = a
  BY <1>1, <1>2 DEF CallOK, CallType, SameRequest, AnswerOK, ToAnswered
<1>3. ASSUME NEW a \in AuthorityType, k.op = "resume"
      PROVE  /\ CallOK(ToProving(k, a)) /\ SameRequest(ToProving(k, a), k)
             /\ ToProving(k, a).at = "proving" /\ ToProving(k, a).checked = a
  BY <1>1, <1>3 DEF CallOK, CallType, SameRequest, ToProving
<1>4. ASSUME k.op = "invoke", k.token \in Tokens
      PROVE  /\ CallOK(ToPreparing(k)) /\ SameRequest(ToPreparing(k), k)
             /\ ToPreparing(k).at = "preparing"
  BY <1>1, <1>4 DEF CallOK, CallType, SameRequest, ToPreparing
<1>5. CallOK(ToLost(k)) /\ SameRequest(ToLost(k), k) /\ ToLost(k).at = "lost"
  BY <1>1 DEF CallOK, CallType, SameRequest, ToLost
<1>6. /\ CallOK(ToUnheard(k)) /\ SameRequest(ToUnheard(k), k) /\ ToUnheard(k).at = k.at
      /\ ToUnheard(k).answer = k.answer /\ ToUnheard(k).checked = k.checked
  BY <1>1 DEF CallOK, CallType, SameRequest, ToUnheard
<1> QED BY <1>2, <1>3, <1>4, <1>5, <1>6

LEMMA AnsweredOK ==
  ASSUME \A j \in calls : CallOK(j), NEW k \in calls, NEW a, AnswerOK(a)
  PROVE  \A j \in Answered(k, a) : CallOK(j)
<1>1. CallOK(ToAnswered(k, a))
  BY MovedOn
<1> QED BY <1>1 DEF Answered, ToAnswered

LEMMA RequestOK ==
  ASSUME Typed, NEW c \in Consumers, NEW op \in Kinds, NEW gen \in Nat,
         NEW token \in MaybeToken, NEW expect \in Nat, NEW from \in GrantType
  PROVE  LET k == Request(c, op, gen, token, expect, from) IN
         /\ CallOK(k) /\ k.at = "sent" /\ k.op = op /\ k.c = c /\ k.n = made[c][op] + 1
<1>1. made[c][op] \in Nat /\ now \in Nat
  BY DEF Typed
<1>2. now + (IF op = "offer" THEN OfferTTL ELSE RequestTTL) \in Nat
  BY <1>1, Nulls
<1>3. AnswerOK(Plain("none"))
  BY PlainOK DEF Statuses
<1> QED BY <1>1, <1>2, <1>3, Nulls DEF CallOK, AnswerOK, CallType, Request, GrantType

-----------------------------------------------------------------------------
(* Every step keeps the types. *)

LEMMA AcceptedType ==
  ASSUME Typed, NEW h \in HostType, NEW t \in Tokens
  PROVE  LET o == [h.offers[t] EXCEPT !.status = "accepted", !.deadline = now + GrantTTL, !.consent = t]
             g == [h EXCEPT !.active = t,
                     !.offers[t] = [@ EXCEPT !.status = "accepted",
                                    !.deadline = now + GrantTTL, !.consent = t]]
         IN  /\ o \in OfferType /\ g = [h EXCEPT !.active = t, !.offers[t] = o]
             /\ g \in HostType /\ Remember(g, t, t) \in HostType
<1> DEFINE o == [h.offers[t] EXCEPT !.status = "accepted", !.deadline = now + GrantTTL, !.consent = t]
           g == [h EXCEPT !.active = t,
                   !.offers[t] = [@ EXCEPT !.status = "accepted",
                                  !.deadline = now + GrantTTL, !.consent = t]]
<1>1. h.offers[t] \in OfferType /\ now + GrantTTL \in Nat
  BY Nulls DEF HostType, Typed
<1>2. o \in OfferType
  BY <1>1 DEF OfferType
<1>3. g = [h EXCEPT !.active = t, !.offers[t] = o]
  BY DEF HostType
<1> HIDE DEF o, g
<1>4. g \in HostType
  BY <1>2, <1>3, OffersType DEF MaybeToken
<1>5. Remember(g, t, t) \in HostType
  BY <1>4, RememberType
<1> QED BY <1>2, <1>3, <1>4, <1>5 DEF o, g

LEMMA OperatorTyped ==
  ASSUME Typed,
         \/ \E on \in BOOLEAN : Enable(on) \/ SetReady(on)
         \/ \E t \in Tokens : Accept(t) \/ Decline(t)
         \/ Stop \/ Look
  PROVE  Typed' /\ UNCHANGED <<now, version, peer, calls, made, tokens, applied, told>>
<1>0. UNCHANGED <<now, version, peer, calls, made, tokens, applied, told>>
  BY DEF Enable, SetReady, Accept, Decline, Stop, Look, Operate
<1>1. host \in HostType
  BY DEF Typed
<1>2. EndAll(host) \in HostType /\ Expire(host) \in HostType
  BY <1>1, EndAllFacts, ExpireFinishes DEF Finishes
<1>3. host' \in HostType
  <2>1. ASSUME NEW on \in BOOLEAN, Enable(on) \/ SetReady(on) PROVE host' \in HostType
    <3>1. (IF on THEN host ELSE EndAll(host)) \in HostType
      BY <1>1, <1>2
    <3>2. host' = [(IF on THEN host ELSE EndAll(host)) EXCEPT !.enabled = on]
          \/ host' = [(IF on THEN host ELSE EndAll(host)) EXCEPT !.ready = on]
      BY <2>1 DEF Enable, SetReady, Operate
    <3> DEFINE h == IF on THEN host ELSE EndAll(host)
    <3> HIDE DEF HostType, h
    <3>3. [h EXCEPT !.enabled = on] \in HostType /\ [h EXCEPT !.ready = on] \in HostType
      BY <2>1, <3>1, FlagTypes DEF h
    <3> QED BY <3>2, <3>3 DEF h
  <2>2. ASSUME NEW t \in Tokens, Accept(t) PROVE host' \in HostType
    <3> DEFINE g == [Expire(host) EXCEPT !.active = t,
                       !.offers[t] = [@ EXCEPT !.status = "accepted",
                                      !.deadline = now + GrantTTL, !.consent = t]]
    <3>1. Remember(g, t, t) \in HostType
      BY <1>2, AcceptedType
    <3>2. host' = Finish(Remember(g, t, t), {u \in Tokens : g.offers[u].status = "pending"})
      BY <2>2 DEF Accept, Operate
    <3> QED BY <3>1, <3>2, FinishFinishes DEF Finishes
  <2>3. ASSUME NEW t \in Tokens, Decline(t) PROVE host' \in HostType
    BY <1>1, <2>3, FinishFinishes DEF Decline, Operate, Finishes
  <2> QED BY <1>2, <2>1, <2>2, <2>3 DEF Stop, Look, Operate
<1> QED BY <1>0, <1>3 DEF Typed

LEMMA ReloadTyped ==
  ASSUME Typed, Reload
  PROVE  Typed' /\ UNCHANGED <<now, version, peer, made, tokens, applied, told>>
<1>1. host' \in HostType
  <2>1. host.saved \in AuthorityType /\ host.gen + 1 \in Nat
    BY DEF Typed, HostType
  <2>2. (IF host.saved.expires > now THEN host.saved ELSE NoAuthority) \in AuthorityType
    BY <2>1, Nulls
  <2>3. [t \in Tokens |-> NoOffer] \in [Tokens -> OfferType]
    BY Nulls
  <2>4. host' = Fresh(host.gen + 1, host.saved)
    BY DEF Reload
  <2> QED BY <2>1, <2>2, <2>3, <2>4 DEF Fresh, HostType, MaybeToken
<1>2. \A j \in calls' : CallOK(j)
  <2>1. SUFFICES ASSUME NEW k \in calls
                 PROVE  CallOK(k) /\ CallOK(ToLost(k))
    BY DEF Reload, ToLost
  <2> QED BY MovedOn DEF Typed
<1>3. UNCHANGED <<now, version, peer, made, tokens, applied, told>>
  BY DEF Reload
<1> QED BY <1>1, <1>2, <1>3 DEF Typed

LEMMA ClockTyped ==
  ASSUME Typed, Tick \/ Edit
  PROVE  Typed'
BY DEF Typed, Tick, Edit

-----------------------------------------------------------------------------
\* The supplier's part of a request.
Receives(k) ==
  \/ TurnAway(k) \/ ReceiveOffer(k) \/ ReceiveResume(k) \/ Proved(k) \/ ReceiveOn(k)
  \/ \E outcome \in {"works", "rejects", "throws", "throws late"} : Prepared(k, outcome)

\* What becomes of a request before any action takes effect: it is answered, or
\* taken up.
Received(k) ==
  /\ tokens' \in Tokens \cup {0} /\ host' \in HostType
  /\ UNCHANGED <<now, version, peer, made, applied, told>>
  /\ k.at \in {"sent", "proving"}
  /\ \/ \E a : AnswerOK(a) /\ a.status # "applied" /\ calls' = Answered(k, a)
     \/ \E j : /\ CallOK(j) /\ SameRequest(j, k) /\ j.at \in {"proving", "preparing"}
               /\ calls' = (calls \ {k}) \cup {j}

LEMMA RepliedReceived ==
  ASSUME NEW k, k.at \in {"sent", "proving"}, tokens' \in Tokens \cup {0},
         NEW h \in HostType, NEW a, AnswerOK(a), a.status # "applied", Reply(h, k, a)
  PROVE  Received(k)
BY DEF Received, Reply

LEMMA PlainReceived ==
  ASSUME NEW k, k.at \in {"sent", "proving"}, tokens' \in Tokens \cup {0}, NEW h \in HostType,
         NEW s \in {"refused", "expired", "unavailable", "busy", "observed", "conflict"},
         Reply(h, k, Plain(s))
  PROVE  Received(k)
<1>1. AnswerOK(Plain(s))
  BY PlainOK DEF Statuses, Denials
<1>2. Plain(s).status # "applied"
  BY DEF Plain
<1> QED BY <1>1, <1>2, RepliedReceived

LEMMA StatusReceived ==
  ASSUME NEW k, k.at \in {"sent", "proving"}, tokens' \in Tokens \cup {0},
         NEW h \in HostType, NEW t \in Tokens, Reply(h, k, StatusOf(h, t))
  PROVE  Received(k)
<1>1. h.offers[t] \in OfferType
  BY DEF HostType
<1>2. StatusOf(h, t).status # "applied"
  BY <1>1 DEF StatusOf, OfferType, Plain
<1> QED BY <1>2, StatusOfOK, RepliedReceived

LEMMA TurnedAway ==
  ASSUME Typed, NEW k \in calls, TurnAway(k)
  PROVE  Received(k)
<1>1. Expire(host) \in HostType
  BY ExpireFinishes DEF Typed, Finishes
<1>2. PICK s \in {"refused", "expired"} : Reply(Expire(host), k, Plain(s))
  BY DEF TurnAway
<1> QED BY <1>1, <1>2, PlainReceived DEF TurnAway, Typed

\* A new offer waits for the operator, under a token never used before.
LEMMA OfferReceived ==
  ASSUME Typed, NEW k \in calls, ReceiveOffer(k)
  PROVE  /\ Received(k)
         /\ \/ host' = Expire(host) /\ tokens' = tokens
            \/ /\ tokens + 1 \in Tokens /\ tokens' = tokens + 1
               /\ Expire(host).active = None
               /\ \E o \in OfferType :
                    /\ o.status = "pending"
                    /\ host' = [Expire(host) EXCEPT !.offers[tokens + 1] = o]
<1> DEFINE h == Expire(host)
           t == tokens + 1
           offer == [NoOffer EXCEPT !.consumer = k.c, !.status = "pending",
                       !.deadline = IF k.deadline < now + OfferTTL THEN k.deadline ELSE now + OfferTTL]
           g == [h EXCEPT !.offers[t] = offer]
<1>1. h \in HostType /\ k.at = "sent"
  BY ExpireFinishes DEF Typed, Finishes, ReceiveOffer, InTime
<1>2. offer \in OfferType /\ offer.status = "pending"
  <2>1. k.c \in Consumers /\ k.deadline \in Nat /\ now + OfferTTL \in Nat
    BY Nulls DEF Typed, CallOK, CallType
  <2> QED BY <2>1, Nulls DEF OfferType
<1> HIDE DEF h, offer, t
<1>3. CASE \E s \in {"unavailable", "busy"} : Reply(h, k, Plain(s)) /\ UNCHANGED tokens
  BY <1>1, <1>3, PlainReceived DEF Typed, Reply, h
<1>4. CASE h.active = None /\ t \in Tokens /\ tokens' = t /\ Reply(g, k, StatusOf(g, t))
  <2>1. g \in HostType
    BY <1>1, <1>2, <1>4, OffersType DEF MaybeToken
  <2>2. host' = g
    BY <1>4 DEF Reply
  <2> HIDE DEF g
  <2>3. Received(k)
    BY <1>1, <1>4, <2>1, StatusReceived
  <2> QED BY <1>2, <1>4, <2>2, <2>3 DEF g, h, t
<1>5. \/ \E s \in {"unavailable", "busy"} : Reply(h, k, Plain(s)) /\ UNCHANGED tokens
      \/ h.active = None /\ t \in Tokens /\ tokens' = t /\ Reply(g, k, StatusOf(g, t))
  BY DEF ReceiveOffer, h, t, offer
<1> QED BY <1>3, <1>4, <1>5

LEMMA ResumeReceived ==
  ASSUME Typed, NEW k \in calls, ReceiveResume(k)
  PROVE  /\ Received(k) /\ tokens' = tokens
         /\ \/ host' = Expire(host) /\ \E a : calls' = Answered(k, a)
            \/ /\ host' = [Expire(host) EXCEPT !.resuming = TRUE]
               /\ Expire(host).active = None
               /\ Expire(host).authority.consumer = k.c /\ Expire(host).authority \in AuthorityType
               /\ calls' = (calls \ {k}) \cup {ToProving(k, Expire(host).authority)}
<1> DEFINE h == Expire(host)
<1>1. /\ h \in HostType /\ h.authority \in AuthorityType /\ tokens' = tokens
      /\ k.at = "sent" /\ k.op = "resume" /\ CallOK(k) /\ tokens \in Tokens \cup {0}
  BY ExpireFinishes DEF Typed, Finishes, HostType, ReceiveResume, InTime
<1>2. \/ Reply(h, k, Plain("refused"))
      \/ /\ host' = [h EXCEPT !.resuming = TRUE] /\ h.active = None /\ h.authority.consumer = k.c
         /\ calls' = (calls \ {k}) \cup {ToProving(k, h.authority)}
         /\ UNCHANGED <<now, version, peer, made, applied, told>>
  <2> HIDE DEF h
  <2> QED BY DEF ReceiveResume, ToProving, h
<1> HIDE DEF h
<1>3. CASE Reply(h, k, Plain("refused"))
  BY <1>1, <1>3, PlainReceived DEF Reply, h
<1>4. CASE /\ host' = [h EXCEPT !.resuming = TRUE] /\ h.active = None /\ h.authority.consumer = k.c
           /\ calls' = (calls \ {k}) \cup {ToProving(k, h.authority)}
           /\ UNCHANGED <<now, version, peer, made, applied, told>>
  <2>1. host' \in HostType
    BY <1>1, <1>4, FlagTypes
  <2>2. /\ CallOK(ToProving(k, h.authority)) /\ SameRequest(ToProving(k, h.authority), k)
        /\ ToProving(k, h.authority).at = "proving"
    BY <1>1, MovedOn
  <2>3. Received(k)
    BY <1>1, <1>4, <2>1, <2>2 DEF Received
  <2> QED BY <1>1, <1>4, <2>3 DEF h
<1> QED BY <1>2, <1>3, <1>4

\* A resumed grant takes the place of the authority it was proved with.
LEMMA ProvedReceived ==
  ASSUME Typed, NEW k \in calls, Proved(k)
  PROVE  /\ Received(k) /\ \E a : calls' = Answered(k, a)
         /\ \/ host' = [host EXCEPT !.resuming = FALSE] /\ tokens' = tokens
            \/ /\ tokens + 1 \in Tokens /\ tokens' = tokens + 1 /\ StillMay(k)
               /\ LET o == [consumer |-> k.c, deadline |-> k.checked.expires,
                            status |-> "accepted", consent |-> k.checked.consent]
                      g == [[host EXCEPT !.resuming = FALSE] EXCEPT
                              !.active = tokens + 1, !.offers[tokens + 1] = o]
                  IN  o \in OfferType /\ g \in HostType /\ host' = Remember(g, tokens + 1, tokens + 1)
<1> DEFINE h == [host EXCEPT !.resuming = FALSE]
           t == tokens + 1
           o == [consumer |-> k.c, deadline |-> k.checked.expires,
                 status |-> "accepted", consent |-> k.checked.consent]
           f == [h EXCEPT !.active = t, !.offers[t] = o]
           g == Remember(f, t, t)
<1>1. h \in HostType /\ k.at = "proving" /\ k.c \in Consumers /\ k.checked \in AuthorityType
  BY FlagTypes DEF Typed, CallOK, CallType, Proved
<1>2. o \in OfferType
  BY <1>1 DEF OfferType, AuthorityType
<1>3. \/ Reply(h, k, Plain("refused")) /\ UNCHANGED tokens
      \/ t \in Tokens /\ tokens' = t /\ StillMay(k) /\ Reply(g, k, StatusOf(g, t))
  <2> HIDE DEF h, t
  <2> QED BY DEF Proved, ResumedUntil, h, t
<1> HIDE DEF h, t, o
<1>4. t \in Tokens => f \in HostType
  BY <1>1, <1>2, OffersType DEF MaybeToken
<1> HIDE DEF f
<1>5. CASE Reply(h, k, Plain("refused")) /\ UNCHANGED tokens
  BY <1>1, <1>5, PlainReceived DEF Reply, Typed, h
<1>6. CASE t \in Tokens /\ tokens' = t /\ StillMay(k) /\ Reply(g, k, StatusOf(g, t))
  <2>1. g \in HostType
    BY <1>4, <1>6, RememberType
  <2>2. host' = g /\ calls' = Answered(k, StatusOf(g, t))
    BY <1>6 DEF Reply
  <2> HIDE DEF g
  <2>3. Received(k)
    BY <1>1, <1>6, <2>1, StatusReceived
  <2>4. o \in OfferType /\ f \in HostType /\ host' = Remember(f, t, t)
    BY <1>2, <1>4, <1>6, <2>2 DEF g
  <2> QED BY <1>6, <2>2, <2>3, <2>4 DEF f, h, t, o
<1> QED BY <1>3, <1>5, <1>6

\* end, status, read and invoke: the host only ends offers and begins to commit.
LEMMA OnReceived ==
  ASSUME Typed, NEW k \in calls, ReceiveOn(k)
  PROVE  /\ Received(k) /\ tokens' = tokens
         /\ \/ \E a : calls' = Answered(k, a)
            \/ calls' = (calls \ {k}) \cup {ToPreparing(k)} /\ ToPreparing(k).at = "preparing"
         /\ \/ host' = Expire(host)
            \/ k.token \in Tokens /\ host' = Finish(Expire(host), {k.token})
            \/ host' = [Expire(host) EXCEPT !.committing = TRUE]
<1> DEFINE h == Expire(host)
           o == IF k.token = None THEN NoOffer ELSE h.offers[k.token]
           g == Finish(h, {k.token})
           known == o.status # "none" /\ o.consumer = k.c
<1>1. /\ k.token \in MaybeToken /\ tokens' = tokens /\ k.at = "sent" /\ CallOK(k)
      /\ h \in HostType /\ tokens \in Tokens \cup {0}
  BY ExpireFinishes DEF Typed, Finishes, CallOK, CallType, ReceiveOn, InTime
<1>2. known => k.token \in Tokens
  BY <1>1 DEF MaybeToken, NoOffer
<1>3. k.token \in Tokens => g \in HostType
  BY <1>1, FinishFinishes DEF Finishes
<1>4. \/ \E s \in {"refused", "observed", "busy", "conflict"} : Reply(h, k, Plain(s))
      \/ known /\ Reply(g, k, StatusOf(g, k.token))
      \/ known /\ Reply(h, k, StatusOf(h, k.token))
      \/ /\ known /\ k.op = "invoke"
         /\ host' = [h EXCEPT !.committing = TRUE]
         /\ calls' = (calls \ {k}) \cup {ToPreparing(k)}
         /\ UNCHANGED <<now, version, peer, made, applied, told>>
  <2> HIDE DEF h
  <2> QED BY DEF ReceiveOn, ToPreparing, h
<1> HIDE DEF h, known
<1>5. CASE \E s \in {"refused", "observed", "busy", "conflict"} : Reply(h, k, Plain(s))
  BY <1>1, <1>5, PlainReceived DEF Reply, h
<1>6. CASE known /\ Reply(g, k, StatusOf(g, k.token))
  <2>1. host' = g /\ calls' = Answered(k, StatusOf(g, k.token))
    BY <1>6 DEF Reply
  <2> HIDE DEF g
  <2>2. Received(k)
    BY <1>1, <1>2, <1>3, <1>6, StatusReceived
  <2> QED BY <1>1, <1>2, <1>6, <2>1, <2>2 DEF g, h
<1>7. CASE known /\ Reply(h, k, StatusOf(h, k.token))
  BY <1>1, <1>2, <1>7, StatusReceived DEF Reply, h
<1>8. CASE /\ known /\ k.op = "invoke"
           /\ host' = [h EXCEPT !.committing = TRUE]
           /\ calls' = (calls \ {k}) \cup {ToPreparing(k)}
           /\ UNCHANGED <<now, version, peer, made, applied, told>>
  <2>1. host' \in HostType
    BY <1>1, <1>8, FlagTypes
  <2>2. /\ CallOK(ToPreparing(k)) /\ SameRequest(ToPreparing(k), k)
        /\ ToPreparing(k).at = "preparing"
    BY <1>1, <1>2, <1>8, MovedOn
  <2>3. Received(k)
    BY <1>1, <1>8, <2>1, <2>2 DEF Received
  <2> QED BY <1>1, <1>8, <2>2, <2>3 DEF h
<1> QED BY <1>4, <1>5, <1>6, <1>7, <1>8

LEMMA AllReceived ==
  ASSUME Typed, NEW k \in calls,
         TurnAway(k) \/ ReceiveOffer(k) \/ ReceiveResume(k) \/ Proved(k) \/ ReceiveOn(k)
  PROVE  Received(k)
BY TurnedAway, OfferReceived, ResumeReceived, ProvedReceived, OnReceived

LEMMA ReceivedTyped ==
  ASSUME Typed, NEW k \in calls, Received(k)
  PROVE  Typed'
<1>1. \A j \in calls' : CallOK(j)
  BY AnsweredOK DEF Received, Typed
<1> QED BY <1>1 DEF Received, Typed

LEMMA PreparedTyped ==
  ASSUME Typed, NEW k \in calls, NEW outcome, Prepared(k, outcome)
  PROVE  Typed'
<1>1. [host EXCEPT !.committing = FALSE] \in HostType
  BY FlagTypes DEF Typed
<1>2. Expire([host EXCEPT !.committing = FALSE]) \in HostType
  BY <1>1, ExpireFinishes DEF Finishes
<1>3. host' \in HostType /\ version' \in Nat
  <2>1. version' = version \/ version' = version + 1
    BY DEF Prepared
  <2> QED BY <1>1, <1>2, <2>1 DEF Prepared, Typed
<1>4. \A j \in calls' : CallOK(j)
  <2>1. \E s \in Statuses \ {"pending", "accepted"} : calls' = Answered(k, Plain(s))
    BY DEF Prepared, Statuses, Denials, CommitThrew
  <2> QED BY <2>1, PlainOK, AnsweredOK DEF Typed
<1>5. UNCHANGED <<now, peer, made, tokens, told>>
  BY DEF Prepared
<1> QED BY <1>3, <1>4, <1>5 DEF Typed

LEMMA ReceiveTyped ==
  ASSUME Typed, NEW k \in calls, Receives(k)
  PROVE  Typed'
BY AllReceived, ReceivedTyped, PreparedTyped DEF Receives

-----------------------------------------------------------------------------
(* The consumers' steps. *)

\* Consumer c sends a request it never sent before.
Sends(c) ==
  \E p, k :
    /\ PeerOK(p) /\ CallOK(k) /\ k.at = "sent" /\ k.c = c /\ k.n = made[c][k.op] + 1
    /\ Send(c, p, k)

LEMMA RequestSent ==
  ASSUME Typed, NEW c \in Consumers, NEW p, PeerOK(p), NEW op \in Kinds, NEW gen \in Nat,
         NEW token \in MaybeToken, NEW expect \in Nat, NEW from \in GrantType,
         Send(c, p, Request(c, op, gen, token, expect, from))
  PROVE  Sends(c)
<1> DEFINE k == Request(c, op, gen, token, expect, from)
<1>1. CallOK(k) /\ k.at = "sent" /\ k.op = op /\ k.c = c /\ k.n = made[c][op] + 1
  BY RequestOK
<1>2. Send(c, p, k)
  OBVIOUS
<1> HIDE DEF k
<1> QED BY <1>1, <1>2 DEF Sends

LEMMA SendsTyped ==
  ASSUME Typed, NEW c \in Consumers, Sends(c)
  PROVE  Typed'
<1>0. PICK p, k : PeerOK(p) /\ CallOK(k) /\ Send(c, p, k)
  BY DEF Sends
<1>1. k.op \in Kinds /\ p \in PeerType
  BY <1>0 DEF CallOK, CallType, PeerOK
<1>2. made' \in [Consumers -> [Kinds -> Nat]]
  <2>1. made[c] \in [Kinds -> Nat] /\ made[c][k.op] + 1 \in Nat
    BY <1>1 DEF Typed
  <2>2. [made[c] EXCEPT ![k.op] = made[c][k.op] + 1] \in [Kinds -> Nat]
    BY <2>1
  <2>3. made' = [made EXCEPT ![c] = [made[c] EXCEPT ![k.op] = made[c][k.op] + 1]]
    BY <1>0 DEF Send, Typed
  <2> QED BY <2>2, <2>3 DEF Typed
<1>3. peer' \in [Consumers -> PeerType] /\ \A d \in Consumers : PeerOK(peer'[d])
  BY <1>0, <1>1 DEF Send, Typed
<1>4. \A j \in calls' : CallOK(j)
  BY <1>0 DEF Send, Typed
<1> QED BY <1>0, <1>2, <1>3, <1>4 DEF Send, Typed

\* What is known of the peer and of its grant when it asks.
LEMMA PeerFacts ==
  ASSUME Typed, NEW c \in Consumers
  PROVE  /\ peer[c] \in PeerType /\ PeerOK(peer[c])
         /\ peer[c].gen \in Nat /\ peer[c].grant \in GrantType
         /\ peer[c].grant.token \in MaybeToken
         /\ peer[c].ended \subseteq Tokens /\ peer[c].asked \subseteq Tokens
         /\ 0 \in Nat /\ NoGrant \in GrantType /\ NoGrant.token = None
         /\ \A op \in Kinds : made[c][op] \in Nat
BY Nulls DEF Typed, PeerOK, PeerType, GrantType, NoGrant

LEMMA Asks ==
  ASSUME Typed, NEW c \in Consumers,
         \/ Offer(c) \/ Read(c)
         \/ \E t \in Tokens : Status(c, t) \/ End(c, t)
         \/ \E expect \in 0 .. version : Invoke(c, expect)
         \/ \E gen \in 1 .. host.gen : Resume(c, gen)
  PROVE  Sends(c)
<1>1. CASE Offer(c)
  BY <1>1, PeerFacts, RequestSent DEF Offer, Kinds
<1>2. CASE Read(c)
  BY <1>2, PeerFacts, RequestSent DEF Read, Kinds
<1>3. ASSUME NEW t \in Tokens, Status(c, t) PROVE Sends(c)
  BY <1>3, PeerFacts, RequestSent DEF Status, Kinds, MaybeToken
<1>4. ASSUME NEW t \in Tokens, End(c, t) PROVE Sends(c)
  <2> DEFINE p == [peer[c] EXCEPT !.ended = @ \cup {t}, !.grant = NoGrant, !.unresolved = FALSE, !.owed = {}]
  <2>1. PeerOK(p)
    BY PeerFacts, Nulls DEF PeerOK, PeerType
  <2>2. Send(c, p, Request(c, "end", peer[c].gen, t, 0, NoGrant))
    BY <1>4 DEF End
  <2> HIDE DEF p
  <2> QED BY <2>1, <2>2, PeerFacts, RequestSent DEF Kinds, MaybeToken
<1>5. ASSUME NEW expect \in 0 .. version, Invoke(c, expect) PROVE Sends(c)
  <2> DEFINE p == [peer[c] EXCEPT !.unresolved = TRUE, !.owed = @ \cup {made[c]["invoke"] + 1}]
  <2>1. expect \in Nat /\ made[c]["invoke"] + 1 \in Nat
    BY PeerFacts DEF Typed, Kinds
  <2>2. PeerOK(p)
    BY <2>1, PeerFacts DEF PeerOK, PeerType
  <2>3. Send(c, p, Request(c, "invoke", peer[c].gen, peer[c].grant.token, expect, NoGrant))
    BY <1>5 DEF Invoke
  <2> HIDE DEF p
  <2> QED BY <2>1, <2>2, <2>3, PeerFacts, RequestSent DEF Kinds
<1>6. ASSUME NEW gen \in 1 .. host.gen, Resume(c, gen) PROVE Sends(c)
  <2> DEFINE p == [peer[c] EXCEPT !.tried = @ \cup {gen}, !.resuming = TRUE]
  <2>1. gen \in Nat
    BY DEF Typed, HostType
  <2>2. PeerOK(p)
    BY <2>1, PeerFacts DEF PeerOK, PeerType
  <2>3. Send(c, p, Request(c, "resume", gen, None, 0, peer[c].grant))
    BY <1>6 DEF Resume
  <2> HIDE DEF p
  <2> QED BY <2>1, <2>2, <2>3, PeerFacts, RequestSent DEF Kinds, MaybeToken
<1> QED BY <1>1, <1>2, <1>3, <1>4, <1>5, <1>6

LEMMA LeaveTyped ==
  ASSUME Typed, NEW c \in Consumers, Abandon(c) \/ Disconnect(c)
  PROVE  Typed'
<1>1. CASE Abandon(c)
  <2> DEFINE p == [peer[c] EXCEPT !.unresolved = FALSE, !.owed = {}]
  <2>1. p \in PeerType /\ PeerOK(p)
    BY PeerFacts DEF PeerOK, PeerType
  <2>2. peer' = [peer EXCEPT ![c] = p]
    BY <1>1 DEF Abandon, Typed
  <2> HIDE DEF p
  <2> QED BY <1>1, <2>1, <2>2 DEF Abandon, Typed
<1>2. CASE Disconnect(c)
  <2> DEFINE gone == IF peer[c].grant = NoGrant THEN {} ELSE {peer[c].grant.token}
             p == [peer[c] EXCEPT !.disconnected = TRUE, !.ended = @ \cup gone,
                                  !.grant = NoGrant, !.unresolved = FALSE, !.owed = {}]
  <2>1. gone \subseteq Tokens
    BY PeerFacts DEF PeerOK
  <2> HIDE DEF gone
  <2>2. p \in PeerType /\ PeerOK(p)
    BY <2>1, PeerFacts, Nulls DEF PeerOK, PeerType
  <2>3. peer' = [peer EXCEPT ![c] = p]
    BY <1>2 DEF Disconnect, gone
  <2> HIDE DEF p
  <2> QED BY <1>2, <2>2, <2>3 DEF Disconnect, Typed
<1> QED BY <1>1, <1>2

\* A grant adopted is of an offer, and not of one that was ended.
LEMMA AdoptOK ==
  ASSUME NEW p, PeerOK(p), NEW k, CallOK(k), ~ p.disconnected
  PROVE  PeerOK(Adopt(p, k))
<1>1. /\ p \in PeerType /\ k.answer \in AnswerType /\ k.op \in Kinds /\ k.n \in Nat
      /\ k.answer.status = "accepted" => k.answer.token \in Tokens
  BY DEF PeerOK, CallOK, CallType, AnswerOK
<1>2. [token |-> k.answer.token, expires |-> k.answer.expires,
       secret |-> k.answer.secret, by |-> <<k.op, k.n>>] \in GrantType
  BY <1>1 DEF GrantType, AnswerType
<1> QED BY <1>1, <1>2, Nulls DEF PeerOK, Adopt, PeerType

LEMMA ConcludedOK ==
  ASSUME NEW p, PeerOK(p), NEW k, CallOK(k), NEW status, status \in {k.answer.status, "unknown"}
  PROVE  PeerOK(Concluded(p, k, status))
<1> DEFINE out == Outcome(p, k, status)
           q == IF out = "ended" /\ k.token # None
                THEN [p EXCEPT !.ended = @ \cup {k.token}, !.grant = NoGrant] ELSE p
<1>1. /\ p \in PeerType /\ k.token \in MaybeToken /\ k.answer \in AnswerType
      /\ k.answer.status \in {"pending", "accepted"} => k.answer.token \in Tokens
      /\ NoGrant \in GrantType /\ NoGrant.token = None /\ None \notin Tokens
  BY Nulls DEF PeerOK, CallOK, CallType, AnswerOK, NoGrant
<1>2. q \in PeerType /\ PeerOK(q)
  BY <1>1 DEF PeerOK, PeerType, MaybeToken
<1>3. out \in {"gone", status} /\ (p.disconnected => out = "gone")
  BY DEF Outcome
<1>4. q.disconnected = p.disconnected
  BY <1>1 DEF PeerType
<1> HIDE DEF q, out
<1>5. CASE k.op = "offer" /\ out = "pending"
  <2>1. Concluded(p, k, status) = [q EXCEPT !.asked = @ \cup {k.answer.token}]
    BY <1>5 DEF Concluded, q, out
  <2>2. k.answer.token \in Tokens
    BY <1>1, <1>3, <1>5
  <2> QED BY <1>2, <2>1, <2>2 DEF PeerOK, PeerType
<1>6. CASE k.op = "status" /\ out = "accepted"
  <2>1. Concluded(p, k, status) = Adopt(q, k)
    BY <1>6 DEF Concluded, q, out
  <2> QED BY <1>2, <1>3, <1>4, <1>6, <2>1, AdoptOK
<1>7. CASE k.op = "invoke" /\ out # "unknown"
  <2>1. Concluded(p, k, status) = [q EXCEPT !.unresolved = FALSE, !.owed = @ \ {k.n}]
    BY <1>7 DEF Concluded, q, out
  <2> QED BY <1>2, <2>1 DEF PeerOK, PeerType
<1>8. CASE /\ ~ (k.op = "offer" /\ out = "pending")
           /\ ~ (k.op = "status" /\ out = "accepted")
           /\ ~ (k.op = "invoke" /\ out # "unknown")
  <2>1. Concluded(p, k, status) = q
    BY <1>8 DEF Concluded, q, out
  <2> QED BY <1>2, <2>1
<1> QED BY <1>5, <1>6, <1>7, <1>8

LEMMA ConcludeTyped ==
  ASSUME Typed, NEW k \in calls, NEW status, status \in {k.answer.status, "unknown"},
         Conclude(k, status)
  PROVE  /\ peer' \in [Consumers -> PeerType] /\ \A d \in Consumers : PeerOK(peer'[d])
         /\ made' = made
<1>1. CallOK(k) /\ k.c \in Consumers /\ PeerOK(peer[k.c])
  BY DEF Typed, CallOK, CallType
<1>2. PeerOK(Concluded(peer[k.c], k, status))
  BY <1>1, ConcludedOK
<1>3. peer' = [peer EXCEPT ![k.c] = Concluded(peer[k.c], k, status)] /\ made' = made
  BY DEF Conclude, Typed
<1> QED BY <1>1, <1>2, <1>3 DEF Typed, PeerOK

\* Where a consumer only notes that a resumption is over.
LEMMA NotedOK ==
  ASSUME NEW p, PeerOK(p)
  PROVE  /\ PeerOK([p EXCEPT !.resuming = FALSE])
         /\ PeerOK([p EXCEPT !.doubtful = TRUE, !.resuming = FALSE])
         /\ \A gen \in Nat : /\ PeerOK([p EXCEPT !.gen = gen, !.resuming = FALSE])
                             /\ [p EXCEPT !.gen = gen, !.resuming = FALSE].disconnected = p.disconnected
BY DEF PeerOK, PeerType

LEMMA EndConcludedTyped ==
  ASSUME Typed, NEW k \in calls, ConcludeEnd(k)
  PROVE  /\ peer' \in [Consumers -> PeerType] /\ \A d \in Consumers : PeerOK(peer'[d])
         /\ made' = made
<1>1. k.c \in Consumers /\ PeerOK(peer[k.c])
  BY DEF Typed, CallOK, CallType
<1>2. peer' = peer \/ peer' = [peer EXCEPT ![k.c] = [peer[k.c] EXCEPT !.resuming = FALSE]]
  BY DEF ConcludeEnd, Typed
<1>3. PeerOK([peer[k.c] EXCEPT !.resuming = FALSE])
  BY <1>1, NotedOK
<1> QED BY <1>1, <1>2, <1>3 DEF ConcludeEnd, Typed, PeerOK

LEMMA ResumeConcludedTyped ==
  ASSUME Typed, NEW k \in calls, NEW rest, \A j \in rest : CallOK(j), ConcludeResume(k, rest)
  PROVE  /\ peer' \in [Consumers -> PeerType] /\ \A d \in Consumers : PeerOK(peer'[d])
         /\ made' \in [Consumers -> [Kinds -> Nat]] /\ \A j \in calls' : CallOK(j)
<1> DEFINE p == peer[k.c]
           good == k.answer.status = "accepted" /\ k.answer.expires = k.from.expires
<1>1. /\ k.c \in Consumers /\ PeerOK(p) /\ CallOK(k) /\ k.gen \in Nat
      /\ good => k.answer.token \in Tokens
  BY DEF Typed, CallOK, CallType, AnswerOK
<1>2. CASE good /\ ~ StillWanted(p, k)
  <2>1. CallOK(Request(k.c, "undo", k.gen, k.answer.token, 0, NoGrant))
    BY <1>1, <1>2, RequestOK, Nulls DEF MaybeToken, Kinds
  <2>2. made' = [made EXCEPT ![k.c] = [made[k.c] EXCEPT !["undo"] = made[k.c]["undo"] + 1]]
    BY <1>2 DEF ConcludeResume, Typed
  <2>3. made[k.c] \in [Kinds -> Nat] /\ made[k.c]["undo"] + 1 \in Nat /\ "undo" \in Kinds
    BY <1>1 DEF Typed, Kinds
  <2>4. made' \in [Consumers -> [Kinds -> Nat]]
    BY <2>2, <2>3 DEF Typed
  <2> QED BY <1>2, <2>1, <2>4 DEF ConcludeResume, Typed
<1>3. CASE ~ (good /\ ~ StillWanted(p, k))
  <2> DEFINE p2 == [p EXCEPT !.gen = k.gen, !.resuming = FALSE]
             q == IF good THEN Adopt(p2, k) ELSE [p EXCEPT !.resuming = FALSE]
  <2>1. /\ peer' = [peer EXCEPT ![k.c] = q] /\ made' = made /\ calls' = rest
    BY <1>3 DEF ConcludeResume, Typed
  <2>2. PeerOK(p2) /\ p2.disconnected = p.disconnected
    BY <1>1, NotedOK
  <2>3. good => ~ p.disconnected
    BY <1>3 DEF StillWanted
  <2> HIDE DEF p2
  <2>4. PeerOK(q)
    BY <1>1, <2>2, <2>3, AdoptOK, NotedOK
  <2> HIDE DEF q
  <2> QED BY <1>1, <2>1, <2>4 DEF Typed, PeerOK
<1> QED BY <1>2, <1>3

LEMMA ReturnTyped ==
  ASSUME Typed, NEW k \in calls, Return(k)
  PROVE  Typed'
<1>1. \A j \in calls \ {k} : CallOK(j)
  BY DEF Typed
<1>2. CASE Conclude(k, k.answer.status) /\ calls' = calls \ {k}
  BY <1>1, <1>2, ConcludeTyped DEF Return, Typed
<1>3. CASE ConcludeEnd(k) /\ calls' = calls \ {k}
  BY <1>1, <1>3, EndConcludedTyped DEF Return, Typed
<1>4. CASE ConcludeResume(k, calls \ {k})
  BY <1>1, <1>4, ResumeConcludedTyped DEF Return, Typed
<1> QED BY <1>2, <1>3, <1>4 DEF Return

LEMMA GiveUpTyped ==
  ASSUME Typed, NEW k \in calls, GiveUp(k)
  PROVE  Typed'
<1>1. \A j \in calls' : CallOK(j)
  <2>1. CallOK(ToUnheard(k))
    BY MovedOn DEF Typed
  <2> QED BY <2>1 DEF Typed, GiveUp, ToUnheard
<1>2. CASE Conclude(k, "unknown")
  BY <1>1, <1>2, ConcludeTyped DEF GiveUp, Typed
<1>3. CASE ConcludeEnd(k)
  BY <1>1, <1>3, EndConcludedTyped DEF GiveUp, Typed
<1>4. CASE /\ peer' = [peer EXCEPT ![k.c].doubtful = TRUE, ![k.c].resuming = FALSE]
           /\ UNCHANGED <<made, told>>
  <2> DEFINE q == [peer[k.c] EXCEPT !.doubtful = TRUE, !.resuming = FALSE]
  <2>1. k.c \in Consumers /\ PeerOK(peer[k.c])
    BY DEF Typed, CallOK, CallType
  <2>2. PeerOK(q)
    BY <2>1, NotedOK
  <2>3. peer' = [peer EXCEPT ![k.c] = q]
    BY <1>4, <2>1 DEF Typed
  <2> HIDE DEF q
  <2>4. peer' \in [Consumers -> PeerType] /\ \A d \in Consumers : PeerOK(peer'[d])
    BY <2>1, <2>2, <2>3 DEF Typed, PeerOK
  <2> QED BY <1>1, <1>4, <2>4 DEF GiveUp, Typed
<1> QED BY <1>2, <1>3, <1>4 DEF GiveUp

LEMMA InitTyped == Init => Typed
<1> SUFFICES ASSUME Init PROVE Typed
  OBVIOUS
<1>1. host \in HostType
  BY Nulls DEF Init, Fresh, HostType, MaybeToken
<1>2. \A c \in Consumers : peer[c] \in PeerType /\ PeerOK(peer[c])
  <2>1. \A c \in Consumers : Joins[c] \in Nat
    BY BoundsAssumption
  <2> QED BY <2>1, Nulls DEF Init, PeerType, PeerOK, NoGrant
<1>3. peer \in [Consumers -> PeerType]
  BY <1>2 DEF Init
<1> QED BY <1>1, <1>2, <1>3 DEF Init, Typed

LEMMA NextTyped == Typed /\ [Next]_vars => Typed'
<1> SUFFICES ASSUME Typed, [Next]_vars PROVE Typed'
  OBVIOUS
<1>1. CASE UNCHANGED vars
  BY <1>1 DEF vars, Typed
<1>2. CASE \/ \E on \in BOOLEAN : Enable(on) \/ SetReady(on)
           \/ \E t \in Tokens : Accept(t) \/ Decline(t)
           \/ Stop \/ Look
  BY <1>2, OperatorTyped
<1>3. CASE Reload \/ Tick \/ Edit
  BY <1>3, ReloadTyped, ClockTyped
<1>4. ASSUME NEW k \in calls, Receives(k) \/ Return(k) \/ GiveUp(k)
      PROVE  Typed'
  BY <1>4, ReceiveTyped, ReturnTyped, GiveUpTyped
<1>5. ASSUME NEW c \in Consumers,
             \/ Offer(c) \/ Read(c) \/ Abandon(c) \/ Disconnect(c)
             \/ \E t \in Tokens : Status(c, t) \/ End(c, t)
             \/ \E expect \in 0 .. version : Invoke(c, expect)
             \/ \E gen \in 1 .. host.gen : Resume(c, gen)
      PROVE  Typed'
  BY <1>5, Asks, SendsTyped, LeaveTyped
<1> QED BY <1>1, <1>2, <1>3, <1>4, <1>5 DEF Next, Receives

LEMMA AlwaysTyped == Spec => []Typed
BY InitTyped, NextTyped, PTL DEF Spec

(* Every variable has its type in every state.                              *)
THEOREM TypeCorrect == Spec => []TypeOK
<1>1. Typed => TypeOK
  <2> SUFFICES ASSUME Typed PROVE TypeOK
    OBVIOUS
  <2>1. \A k \in calls : k \in CallType /\ k.answer \in AnswerType
    BY DEF Typed, CallOK, CallType
  <2>2. DOMAIN peer = Consumers
    BY DEF Typed
  <2> QED BY <2>1, <2>2 DEF Typed, TypeOK, CallType, AnswerType, Statuses, HostType, MaybeToken
<1> QED BY <1>1, AlwaysTyped, PTL

(* A consumer that ended a grant or disconnected never holds it again: an    *)
(* acceptance or a resumption that arrives later is not adopted.             *)
THEOREM NeverHeldAgain == Spec => []NeverRevived
<1>1. Typed => NeverRevived
  BY DEF Typed, PeerOK, NeverRevived
<1> QED BY <1>1, AlwaysTyped, PTL

-----------------------------------------------------------------------------
(* What took effect and what the consumers were told of it. *)

Id(k) == <<k.c, k.n>>
IsApplied(id) == \E a \in applied : a.id = id
WasMade(id) == \E c \in Consumers, n \in Nat : id = <<c, n>> /\ n <= made[c]["invoke"]

\* No request is under way twice.
CallsOnce ==
  /\ \A k \in calls : k.n <= made[k.c][k.op]
  /\ \A j, k \in calls : j.op = k.op /\ j.c = k.c /\ j.n = k.n => j = k

\* An action that is still to be decided has not taken effect; one that was
\* answered did as the answer says.
CallTrue(k) ==
  k.op = "invoke" =>
    /\ k.at \in {"sent", "preparing"} => ~ IsApplied(Id(k))
    /\ k.at = "answered" =>
         /\ k.answer.status = "applied" => IsApplied(Id(k))
         /\ k.answer.status \in Denials => ~ IsApplied(Id(k))

\* What was denied cannot happen any more: its request is gone.
ToldTrue(m) ==
  /\ WasMade(m.id)
  /\ m.status = "applied" => IsApplied(m.id)
  /\ m.status \in Denials =>
       ~ IsApplied(m.id) /\ \A k \in calls : k.op = "invoke" => Id(k) # m.id

Truth ==
  /\ CallsOnce
  /\ \A k \in calls : CallTrue(k)
  /\ \A m \in told : ToldTrue(m)
  /\ \A a \in applied : WasMade(a.id) /\ a.on = a.saw

LEMMA CallId ==
  ASSUME Typed, Truth, NEW k \in calls
  PROVE  /\ k.c \in Consumers /\ k.n \in Nat /\ k.op \in Kinds
         /\ k.op = "invoke" => WasMade(Id(k))
BY DEF Typed, CallOK, CallType, Truth, CallsOnce, WasMade, Id

\* What an action is told that has no answer.
Unanswered == {"gone", "unknown"}

\* One request moves on, or is over, and nothing takes effect.
LEMMA MovedTruth ==
  ASSUME Typed, Truth, NEW k \in calls, NEW j, SameRequest(j, k), CallTrue(j),
         calls' \subseteq (calls \ {k}) \cup {j},
         UNCHANGED <<made, applied>>,
         \A m \in told' : m \in told \/ (k.op = "invoke" /\ m.id = Id(k) /\ m.status \in Unanswered)
  PROVE  Truth'
<1>1. \A i \in calls' : i = j \/ (i \in calls /\ i # k)
  OBVIOUS
<1>2. CallsOnce'
  BY <1>1 DEF Truth, CallsOnce, SameRequest
<1>3. \A i \in calls' : CallTrue(i)'
  BY <1>1 DEF Truth, CallTrue, IsApplied
<1>4. \A m \in told' : ToldTrue(m)'
  <2>1. ASSUME NEW m \in told PROVE ToldTrue(m)'
    <3>1. ToldTrue(m)
      BY DEF Truth
    <3>2. \A i \in calls' : \E l \in calls : l.op = i.op /\ Id(l) = Id(i)
      BY <1>1 DEF SameRequest, Id
    <3> QED BY <3>1, <3>2 DEF ToldTrue, WasMade, IsApplied
  <2>2. ASSUME NEW m, k.op = "invoke", m.id = Id(k), m.status \in Unanswered PROVE ToldTrue(m)'
    <3>1. WasMade(Id(k))'
      BY <2>2, CallId DEF WasMade
    <3> QED BY <2>2, <3>1 DEF ToldTrue, Unanswered, Denials
  <2> QED BY <2>1, <2>2
<1>5. \A a \in applied' : WasMade(a.id)' /\ a.on = a.saw
  BY DEF Truth, WasMade
<1> QED BY <1>2, <1>3, <1>4, <1>5 DEF Truth

LEMMA ReceivedTruth ==
  ASSUME Typed, Truth, NEW k \in calls, Received(k)
  PROVE  Truth'
<1>1. CallOK(k) /\ CallTrue(k)
  BY DEF Typed, Truth
<1>2. k.op = "invoke" => k.at = "sent"
  BY <1>1 DEF CallOK, Received
<1>3. CASE \E a : AnswerOK(a) /\ a.status # "applied" /\ calls' = Answered(k, a)
  <2>1. PICK a : AnswerOK(a) /\ a.status # "applied" /\ calls' = Answered(k, a)
    BY <1>3
  <2>2. CallOK(k) /\ AnswerOK(a)
    BY <1>1, <2>1
  <2>3. /\ SameRequest(ToAnswered(k, a), k)
        /\ ToAnswered(k, a).at = "answered" /\ ToAnswered(k, a).answer = a
    BY <2>2, MovedOn
  <2>4. calls' \subseteq (calls \ {k}) \cup {ToAnswered(k, a)}
    BY <2>1 DEF Answered, ToAnswered
  <2>5. CallTrue(ToAnswered(k, a))
    BY <1>1, <1>2, <2>1, <2>3 DEF CallTrue, SameRequest, Id
  <2> QED BY <2>3, <2>4, <2>5, MovedTruth DEF Received
<1>4. CASE \E j : /\ CallOK(j) /\ SameRequest(j, k) /\ j.at \in {"proving", "preparing"}
                  /\ calls' = (calls \ {k}) \cup {j}
  <2>1. PICK j : /\ CallOK(j) /\ SameRequest(j, k) /\ j.at \in {"proving", "preparing"}
                 /\ calls' = (calls \ {k}) \cup {j}
    BY <1>4
  <2>2. CallTrue(j)
    BY <1>1, <1>2, <2>1 DEF CallTrue, SameRequest, Id
  <2> QED BY <2>1, <2>2, MovedTruth DEF Received
<1> QED BY <1>3, <1>4 DEF Received

\* What prepare's end does: the action takes effect, or its request is answered
\* without.
Commits(k) ==
  /\ host.active \in Tokens /\ host.enabled /\ host.ready
  /\ now < host.offers[host.active].deadline
  /\ k.expect = version /\ version' = version + 1
  /\ applied' = applied \cup {[id |-> Id(k), on |-> version, saw |-> k.expect]}

LEMMA PreparedCommits ==
  ASSUME Typed, NEW k \in calls, NEW outcome, Prepared(k, outcome)
  PROVE  /\ k.at = "preparing" /\ k.op = "invoke" /\ UNCHANGED <<made, told, tokens, now>>
         /\ \E s : /\ s \in Statuses \ {"pending", "accepted"} /\ calls' = Answered(k, Plain(s))
                   /\ \/ s # "applied" /\ UNCHANGED <<version, applied>>
                      \/ s \notin Denials /\ Commits(k)
<1> DEFINE f == [host EXCEPT !.committing = FALSE]
           h == Expire(f)
           refusal == IF outcome = "rejects" THEN "invalid"
                      ELSE IF Permitted(h, k) THEN "conflict"
                      ELSE IF h.offers[k.token].status = "ended" THEN "ended" ELSE "expired"
           commits == outcome # "rejects" /\ MayCommit(h, k)
           effect == commits /\ outcome # "throws"
           s == IF ~ commits THEN refusal ELSE IF outcome = "works" THEN "applied" ELSE "unknown"
<1>1. /\ f \in HostType /\ f.enabled = host.enabled /\ f.ready = host.ready
      /\ f.active = host.active /\ f.offers = host.offers
  BY DEF Typed, HostType
<1>2. /\ k.at = "preparing" /\ k.op = "invoke" /\ k.token \in Tokens
      /\ UNCHANGED <<made, told, tokens, now>>
  BY DEF Prepared, Typed, CallOK
<1>3. Finishes(f, {t \in Tokens : now >= f.offers[t].deadline}, h)
  BY <1>1, ExpireFinishes
<1> HIDE DEF f, h
<1>4. commits => /\ host.active \in Tokens /\ host.enabled /\ host.ready
                 /\ now < host.offers[host.active].deadline /\ k.expect = version
  <2>1. SUFFICES ASSUME commits
                 PROVE  /\ host.active \in Tokens /\ host.enabled /\ host.ready
                        /\ now < host.offers[host.active].deadline /\ k.expect = version
    OBVIOUS
  <2>2. /\ h.enabled /\ h.ready /\ h.active = k.token /\ k.expect = version
        /\ h.offers[k.token].status = "accepted"
    BY <2>1 DEF MayCommit, Permitted
  <2>3. host.active = k.token
    BY <1>1, <1>2, <1>3, <2>2, Nulls DEF Finishes
  <2>4. host.enabled /\ host.ready
    BY <1>1, <1>3, <2>2 DEF Finishes
  <2>5. ~ (now >= f.offers[k.token].deadline)
    BY <1>2, <1>3, <2>2 DEF Finishes
  <2>6. now \in Nat /\ host.offers[k.token].deadline \in Nat
    BY <1>2 DEF Typed, HostType, OfferType
  <2> QED BY <1>1, <1>2, <2>2, <2>3, <2>4, <2>5, <2>6
<1>5. /\ version' = IF effect THEN version + 1 ELSE version
      /\ applied' = IF effect THEN applied \cup {[id |-> Id(k), on |-> version, saw |-> k.expect]} ELSE applied
      /\ calls' = Answered(k, Plain(s))
  BY DEF Prepared, Id, CommitThrew, f, h
<1>6. refusal \in Denials \ {"applied"}
  BY DEF Denials
<1> HIDE DEF refusal, commits
<1>7. s \in Statuses \ {"pending", "accepted"}
  BY <1>6 DEF Statuses, Denials
<1>8. CASE effect
  <2>1. s \notin Denials /\ Commits(k)
    BY <1>4, <1>5, <1>8 DEF Denials, Commits
  <2> QED BY <1>2, <1>5, <1>7, <2>1
<1>9. CASE ~ effect
  <2>1. UNCHANGED <<version, applied>>
    BY <1>5, <1>9
  <2>2. s # "applied"
    BY <1>6, <1>9
  <2> QED BY <1>2, <1>5, <1>7, <2>1, <2>2
<1> QED BY <1>8, <1>9

LEMMA PreparedTruth ==
  ASSUME Typed, Truth, NEW k \in calls, NEW outcome, Prepared(k, outcome)
  PROVE  Truth'
<1>1. PICK s : /\ s \in Statuses \ {"pending", "accepted"} /\ calls' = Answered(k, Plain(s))
               /\ \/ s # "applied" /\ UNCHANGED <<version, applied>>
                  \/ s \notin Denials /\ Commits(k)
  BY PreparedCommits
<1>2. k.at = "preparing" /\ k.op = "invoke" /\ UNCHANGED <<made, told>>
  BY PreparedCommits
<1>3. CallOK(k) /\ AnswerOK(Plain(s))
  BY <1>1, PlainOK DEF Typed
<1> DEFINE j == ToAnswered(k, Plain(s))
<1>4. SameRequest(j, k) /\ j.at = "answered" /\ j.answer = Plain(s)
  BY <1>3, MovedOn
<1>5. calls' \subseteq (calls \ {k}) \cup {j}
  BY <1>1 DEF Answered, ToAnswered
<1>6. ~ IsApplied(Id(k)) /\ WasMade(Id(k)) /\ Plain(s).status = s
  BY <1>2, CallId DEF Truth, CallTrue, Plain
<1> HIDE DEF j
<1>7. CASE s # "applied" /\ UNCHANGED <<version, applied>>
  <2>1. CallTrue(j)
    BY <1>4, <1>6, <1>7 DEF CallTrue, SameRequest, Id
  <2> QED BY <1>2, <1>4, <1>5, <1>7, <2>1, MovedTruth
<1>8. CASE s \notin Denials /\ Commits(k)
  <2>1. /\ \A id : IsApplied(id)' <=> IsApplied(id) \/ id = Id(k)
        /\ \A id : WasMade(id)' <=> WasMade(id)
        /\ \A a \in applied' : a \in applied \/ (a.id = Id(k) /\ a.on = a.saw)
    <3> DEFINE a0 == [id |-> Id(k), on |-> version, saw |-> k.expect]
    <3>1. applied' = applied \cup {a0} /\ a0.id = Id(k) /\ a0.on = a0.saw
      BY <1>8 DEF Commits
    <3> HIDE DEF a0
    <3>2. \A id : WasMade(id)' <=> WasMade(id)
      BY <1>2 DEF WasMade
    <3>3. \A id : IsApplied(id)' <=> IsApplied(id) \/ id = Id(k)
      BY <3>1 DEF IsApplied
    <3> QED BY <3>1, <3>2, <3>3
  <2>2. \A i \in calls' : i = j \/ (i \in calls /\ i # k)
    BY <1>5
  <2>3. \A i \in calls : i # k /\ i.op = "invoke" => Id(i) # Id(k)
    BY <1>2 DEF Truth, CallsOnce, Id
  <2>4. CallsOnce'
    BY <1>2, <1>4, <2>2 DEF Truth, CallsOnce, SameRequest
  <2>5. \A i \in calls' : CallTrue(i)'
    <3>1. CallTrue(j)'
      BY <1>4, <1>6, <1>8, <2>1 DEF CallTrue, SameRequest, Id
    <3>2. ASSUME NEW i \in calls, i # k PROVE CallTrue(i)'
      BY <2>1, <2>3, <3>2 DEF Truth, CallTrue
    <3> QED BY <2>2, <3>1, <3>2
  <2>6. \A m \in told' : ToldTrue(m)'
    <3>1. SUFFICES ASSUME NEW m \in told PROVE ToldTrue(m)'
      BY <1>2
    <3>2. ToldTrue(m)
      BY DEF Truth
    <3>3. m.status \in Denials => m.id # Id(k)
      BY <1>2, <3>2 DEF ToldTrue
    <3>4. \A i \in calls' : \E l \in calls : l.op = i.op /\ Id(l) = Id(i)
      BY <1>4, <2>2 DEF SameRequest, Id
    <3> QED BY <2>1, <3>2, <3>3, <3>4 DEF ToldTrue
  <2>7. \A a \in applied' : WasMade(a.id)' /\ a.on = a.saw
    BY <1>6, <2>1 DEF Truth
  <2> QED BY <2>4, <2>5, <2>6, <2>7 DEF Truth
<1> QED BY <1>1, <1>7, <1>8

\* A request is made under a number that was never used.
LEMMA MadeTruth ==
  ASSUME Typed, Truth, NEW rest \in SUBSET calls, NEW k, CallOK(k), k.at = "sent",
         k.n = made[k.c][k.op] + 1, calls' = rest \cup {k},
         made' = [made EXCEPT ![k.c][k.op] = @ + 1], UNCHANGED <<told, applied>>
  PROVE  Truth'
<1>1. k.c \in Consumers /\ k.op \in Kinds /\ k.n \in Nat
  BY DEF CallOK, CallType
<1>2. \A c \in Consumers, op \in Kinds :
        /\ made[c][op] \in Nat
        /\ made'[c][op] = IF c = k.c /\ op = k.op THEN made[c][op] + 1 ELSE made[c][op]
  BY <1>1 DEF Typed
<1>3. \A i \in calls : /\ i.c \in Consumers /\ i.op \in Kinds /\ i.n \in Nat
                       /\ i.n <= made[i.c][i.op]
  BY CallId DEF Truth, CallsOnce
<1>4. CallsOnce'
  <2>1. \A i \in calls' : i.n <= made'[i.c][i.op]
    BY <1>1, <1>2, <1>3
  <2>2. \A i \in calls : ~ (i.op = k.op /\ i.c = k.c /\ i.n = k.n)
    BY <1>1, <1>2, <1>3
  <2> QED BY <2>1, <2>2 DEF Truth, CallsOnce
<1>5. \A id : WasMade(id) => WasMade(id)' /\ (k.op = "invoke" => id # Id(k))
  <2>1. SUFFICES ASSUME NEW c \in Consumers, NEW n \in Nat, n <= made[c]["invoke"]
                 PROVE  WasMade(<<c, n>>)' /\ (k.op = "invoke" => <<c, n>> # Id(k))
    BY DEF WasMade
  <2>2. n <= made'[c]["invoke"]
    BY <1>2, <2>1 DEF Kinds
  <2>3. k.op = "invoke" => <<c, n>> # Id(k)
    BY <1>1, <1>2, <2>1 DEF Kinds, Id
  <2> QED BY <2>2, <2>3 DEF WasMade
<1>6. \A i \in calls' : CallTrue(i)'
  <2>1. CallTrue(k)
    <3>1. k.op = "invoke" => ~ IsApplied(Id(k))
      BY <1>5 DEF Truth, IsApplied
    <3> QED BY <3>1 DEF CallTrue
  <2> QED BY <2>1 DEF Truth, CallTrue, IsApplied
<1>7. \A m \in told' : ToldTrue(m)'
  <2>1. SUFFICES ASSUME NEW m \in told PROVE ToldTrue(m)'
    OBVIOUS
  <2>2. ToldTrue(m) /\ WasMade(m.id)
    BY DEF Truth, ToldTrue
  <2> QED BY <1>5, <2>2 DEF ToldTrue, IsApplied
<1>8. \A a \in applied' : WasMade(a.id)' /\ a.on = a.saw
  BY <1>5 DEF Truth
<1> QED BY <1>4, <1>6, <1>7, <1>8 DEF Truth

LEMMA SendsTruth ==
  ASSUME Typed, Truth, NEW c \in Consumers, Sends(c)
  PROVE  Truth'
<1>1. PICK p, k : /\ PeerOK(p) /\ CallOK(k) /\ k.at = "sent" /\ k.c = c /\ k.n = made[c][k.op] + 1
                  /\ Send(c, p, k)
  BY DEF Sends
<1>2. CallOK(k) /\ k.at = "sent" /\ k.n = made[k.c][k.op] + 1
  BY <1>1
<1>3. calls' = calls \cup {k} /\ UNCHANGED <<told, applied>>
  BY <1>1 DEF Send
<1>4. made' = [made EXCEPT ![k.c][k.op] = @ + 1]
  BY <1>1 DEF Send
<1> QED BY <1>2, <1>3, <1>4, MadeTruth

\* An action is answered, and its consumer told.
LEMMA AnsweredTruth ==
  ASSUME Typed, Truth, NEW k \in calls, calls' = calls \ {k}, UNCHANGED <<made, applied>>,
         k.op = "invoke", k.at = "answered",
         \A m \in told' : m \in told \/ (m.id = Id(k) /\ m.status \in {"gone", k.answer.status})
  PROVE  Truth'
<1>1. CallsOnce' /\ \A i \in calls' : CallTrue(i)'
  BY DEF Truth, CallsOnce, CallTrue, IsApplied
<1>2. \A id : (IsApplied(id)' <=> IsApplied(id)) /\ (WasMade(id)' <=> WasMade(id))
  BY DEF IsApplied, WasMade
<1>3. \A m \in told : ToldTrue(m)'
  BY <1>2 DEF Truth, ToldTrue
<1>4. WasMade(Id(k)) /\ \A i \in calls' : i.op = "invoke" => Id(i) # Id(k)
  BY CallId DEF Truth, CallsOnce, Id
<1>5. ASSUME NEW m, m.id = Id(k), m.status \in {"gone", k.answer.status} PROVE ToldTrue(m)'
  <2>1. CallTrue(k)
    BY DEF Truth
  <2> QED BY <1>2, <1>4, <1>5, <2>1 DEF ToldTrue, CallTrue, Denials
<1>6. \A a \in applied' : WasMade(a.id)' /\ a.on = a.saw
  BY <1>2 DEF Truth
<1> QED BY <1>1, <1>3, <1>5, <1>6 DEF Truth

\* What a step of the consumer's method adds to what it was told.
LEMMA ConcludeTells ==
  ASSUME NEW k, NEW status, Conclude(k, status)
  PROVE  /\ made' = made
         /\ k.op # "invoke" => told' = told
         /\ \A m \in told' : m \in told \/ (k.op = "invoke" /\ m.id = Id(k) /\ m.status \in {"gone", status})
<1>1. Outcome(peer[k.c], k, status) \in {"gone", status}
  BY DEF Outcome
<1> HIDE DEF Outcome
<1> QED BY <1>1 DEF Conclude, Id

LEMMA ReturnTruth ==
  ASSUME Typed, Truth, NEW k \in calls, Return(k)
  PROVE  Truth'
<1>0. /\ applied' = applied /\ k.at = "answered" /\ CallTrue(k) /\ SameRequest(k, k)
      /\ CallOK(k) /\ AnswerOK(k.answer) /\ k.c \in Consumers /\ k.gen \in Nat
  BY DEF Return, Truth, SameRequest, Typed, CallOK, CallType
<1>1. CASE Conclude(k, k.answer.status) /\ calls' = calls \ {k}
  <2>1. CASE k.op = "invoke"
    BY <1>0, <1>1, <2>1, ConcludeTells, AnsweredTruth
  <2>2. CASE k.op # "invoke"
    BY <1>0, <1>1, <2>2, ConcludeTells, MovedTruth
  <2> QED BY <2>1, <2>2
<1>2. CASE ConcludeEnd(k) /\ calls' = calls \ {k}
  BY <1>0, <1>2, MovedTruth DEF ConcludeEnd
<1>3. CASE ConcludeResume(k, calls \ {k})
  <2>1. CASE calls' = calls \ {k} /\ UNCHANGED <<made, told>>
    BY <1>0, <2>1, MovedTruth
  <2>2. CASE /\ k.answer.status = "accepted"
             /\ calls' = (calls \ {k}) \cup {Request(k.c, "undo", k.gen, k.answer.token, 0, NoGrant)}
             /\ made' = [made EXCEPT ![k.c]["undo"] = @ + 1] /\ told' = told
    <3> DEFINE j == Request(k.c, "undo", k.gen, k.answer.token, 0, NoGrant)
    <3>1. k.answer.token \in MaybeToken
      BY <1>0, <2>2 DEF AnswerOK, AnswerType
    <3>2. CallOK(j) /\ j.at = "sent" /\ j.op = "undo" /\ j.c = k.c /\ j.n = made[k.c]["undo"] + 1
      BY <1>0, <3>1, RequestOK, Nulls DEF Kinds
    <3> HIDE DEF j
    <3>3. calls' = (calls \ {k}) \cup {j}
      BY <2>2 DEF j
    <3> QED BY <1>0, <2>2, <3>2, <3>3, MadeTruth
  <2> QED BY <1>3, <2>1, <2>2 DEF ConcludeResume
<1> QED BY <1>1, <1>2, <1>3 DEF Return

LEMMA GiveUpTruth ==
  ASSUME Typed, Truth, NEW k \in calls, GiveUp(k)
  PROVE  Truth'
<1>1. CallOK(k) /\ CallTrue(k)
  BY DEF Typed, Truth
<1>2. SameRequest(ToUnheard(k), k) /\ ToUnheard(k).at = k.at /\ ToUnheard(k).answer = k.answer
  BY <1>1, MovedOn
<1>3. CallTrue(ToUnheard(k))
  BY <1>1, <1>2 DEF CallTrue, SameRequest, Id
<1>4. /\ calls' \subseteq (calls \ {k}) \cup {ToUnheard(k)} /\ applied' = applied
  BY DEF GiveUp, ToUnheard
<1>5. made' = made
  BY ConcludeTells DEF GiveUp, ConcludeEnd
<1>6. \A m \in told' : m \in told \/ (k.op = "invoke" /\ m.id = Id(k) /\ m.status \in Unanswered)
  BY ConcludeTells DEF GiveUp, ConcludeEnd, Unanswered
<1> QED BY <1>2, <1>3, <1>4, <1>5, <1>6, MovedTruth

LEMMA ReloadTruth ==
  ASSUME Typed, Truth, Reload
  PROVE  Truth'
<1>1. UNCHANGED <<made, applied, told>>
  BY DEF Reload
<1>2. \A i \in calls' : \E k \in calls :
        i = k \/ (SameRequest(i, k) /\ i.at = "lost" /\ i = ToLost(k))
  <2>1. \A i \in calls' : \E k \in calls : i = k \/ i = ToLost(k)
    BY DEF Reload, ToLost
  <2>2. \A k \in calls : SameRequest(ToLost(k), k) /\ ToLost(k).at = "lost"
    <3>1. \A k \in calls : CallOK(k)
      BY DEF Typed
    <3> QED BY <3>1, MovedOn
  <2> QED BY <2>1, <2>2
<1>3. CallsOnce'
  <2>1. \A i \in calls' : i.n <= made'[i.c][i.op]
    BY <1>1, <1>2 DEF Truth, CallsOnce, SameRequest
  <2>2. ASSUME NEW i \in calls', NEW j \in calls', i.op = j.op, i.c = j.c, i.n = j.n
        PROVE  i = j
    <3>1. PICK k \in calls : (k.at \in {"proving", "preparing"} /\ i = ToLost(k)) \/ (k.at \notin {"proving", "preparing"} /\ i = k)
      BY DEF Reload, ToLost
    <3>2. PICK l \in calls : (l.at \in {"proving", "preparing"} /\ j = ToLost(l)) \/ (l.at \notin {"proving", "preparing"} /\ j = l)
      BY DEF Reload, ToLost
    <3>3. SameRequest(i, k) /\ SameRequest(j, l)
      <4>1. CallOK(k) /\ CallOK(l)
        BY DEF Typed
      <4>2. SameRequest(ToLost(k), k) /\ SameRequest(ToLost(l), l)
        BY <4>1, MovedOn
      <4> QED BY <3>1, <3>2, <4>2 DEF SameRequest
    <3>4. k = l
      BY <2>2, <3>3 DEF Truth, CallsOnce, SameRequest
    <3> QED BY <3>1, <3>2, <3>4
  <2> QED BY <2>1, <2>2 DEF CallsOnce
<1>4. \A i \in calls' : CallTrue(i)'
  BY <1>1, <1>2 DEF Truth, CallTrue, IsApplied
<1>5. \A m \in told' : ToldTrue(m)'
  <2>1. \A i \in calls' : \E l \in calls : l.op = i.op /\ Id(l) = Id(i)
    BY <1>2 DEF SameRequest, Id
  <2> QED BY <1>1, <2>1 DEF Truth, ToldTrue, WasMade, IsApplied
<1>6. \A a \in applied' : WasMade(a.id)' /\ a.on = a.saw
  BY <1>1 DEF Truth, WasMade
<1> QED BY <1>3, <1>4, <1>5, <1>6 DEF Truth

\* Steps that leave the requests alone.
LEMMA FrameTruth ==
  ASSUME Truth, UNCHANGED <<calls, made, applied, told>>
  PROVE  Truth'
BY DEF Truth, CallsOnce, CallTrue, ToldTrue, IsApplied, WasMade

LEMMA InitTruth == Init => Truth
BY DEF Init, Truth, CallsOnce

LEMMA NextTruth == Typed /\ Truth /\ [Next]_vars => Truth'
<1> SUFFICES ASSUME Typed, Truth, [Next]_vars PROVE Truth'
  OBVIOUS
<1>1. CASE UNCHANGED vars
  BY <1>1, FrameTruth DEF vars
<1>2. CASE \/ \E on \in BOOLEAN : Enable(on) \/ SetReady(on)
           \/ \E t \in Tokens : Accept(t) \/ Decline(t)
           \/ Stop \/ Look
  BY <1>2, OperatorTyped, FrameTruth
<1>3. CASE Tick \/ Edit
  BY <1>3, FrameTruth DEF Tick, Edit
<1>4. CASE Reload
  BY <1>4, ReloadTruth
<1>5. ASSUME NEW k \in calls, Receives(k) \/ Return(k) \/ GiveUp(k)
      PROVE  Truth'
  BY <1>5, AllReceived, ReceivedTruth, PreparedTruth, ReturnTruth, GiveUpTruth DEF Receives
<1>6. ASSUME NEW c \in Consumers,
             \/ Offer(c) \/ Read(c) \/ Abandon(c) \/ Disconnect(c)
             \/ \E t \in Tokens : Status(c, t) \/ End(c, t)
             \/ \E expect \in 0 .. version : Invoke(c, expect)
             \/ \E gen \in 1 .. host.gen : Resume(c, gen)
      PROVE  Truth'
  <2>1. CASE Abandon(c) \/ Disconnect(c)
    BY <2>1, FrameTruth DEF Abandon, Disconnect
  <2> QED BY <1>6, <2>1, Asks, SendsTruth
<1> QED BY <1>1, <1>2, <1>3, <1>4, <1>5, <1>6 DEF Next, Receives

LEMMA AlwaysTruth == Spec => []Truth
BY InitTruth, NextTruth, AlwaysTyped, PTL DEF Spec

(* An action that takes effect changes the very state its caller had         *)
(* observed, although the user may edit while it is prepared.                *)
THEOREM LosesNoUpdate == Spec => []NoLostUpdate
<1>1. Truth => NoLostUpdate
  BY DEF Truth, NoLostUpdate
<1> QED BY <1>1, AlwaysTruth, PTL

(* What a consumer is told of an action is so: "applied" means that it took  *)
(* effect, a denial that it did not and never will, whatever is lost, given  *)
(* up or interrupted by a reload.                                            *)
THEOREM TellsTruly == Spec => []ToldTruly
<1>1. Truth => ToldTruly
  BY DEF Truth, ToldTrue, ToldTruly, IsApplied
<1> QED BY <1>1, AlwaysTruth, PTL

\* Only the end of prepare() changes what was applied.
LEMMA OnlyCommitsApply ==
  ASSUME Typed, [Next]_vars, applied' # applied
  PROVE  \E k \in calls : Commits(k)
<1>1. ASSUME NEW k \in calls, Receives(k) PROVE \E i \in calls : Commits(i)
  <2>1. CASE \E outcome : Prepared(k, outcome)
    BY <2>1, PreparedCommits
  <2>2. CASE TurnAway(k) \/ ReceiveOffer(k) \/ ReceiveResume(k) \/ Proved(k) \/ ReceiveOn(k)
    BY <2>2, AllReceived DEF Received
  <2> QED BY <1>1, <2>1, <2>2 DEF Receives
<1>2. ~ UNCHANGED vars
  BY DEF vars
<1>3. ~ \/ \E on \in BOOLEAN : Enable(on) \/ SetReady(on)
        \/ \E t \in Tokens : Accept(t) \/ Decline(t)
        \/ Stop \/ Look
  BY OperatorTyped
<1>4. ~ (Reload \/ Tick \/ Edit)
  BY DEF Reload, Tick, Edit
<1>5. ASSUME NEW k \in calls PROVE ~ (Return(k) \/ GiveUp(k))
  BY DEF Return, GiveUp
<1>6. ASSUME NEW c \in Consumers
      PROVE  ~ \/ Offer(c) \/ Read(c) \/ Abandon(c) \/ Disconnect(c)
               \/ \E t \in Tokens : Status(c, t) \/ End(c, t)
               \/ \E expect \in 0 .. version : Invoke(c, expect)
               \/ \E gen \in 1 .. host.gen : Resume(c, gen)
  <2>1. ~ (Abandon(c) \/ Disconnect(c)) /\ ~ Sends(c)
    BY DEF Abandon, Disconnect, Sends, Send
  <2> QED BY <2>1, Asks
<1> QED BY <1>1, <1>2, <1>3, <1>4, <1>5, <1>6 DEF Next, Receives

(* An action takes effect only under a grant in force at that moment: the    *)
(* supplier enabled and ready, the grant's time not over.                    *)
THEOREM CommitsConsented == Spec => CommitsUnderConsent
<1>1. Typed /\ [Next]_vars =>
        [version' # version /\ applied' # applied =>
           host.active # None /\ host.enabled /\ host.ready
           /\ now < host.offers[host.active].deadline]_vars
  <2>1. Typed /\ [Next]_vars /\ applied' # applied =>
          host.active # None /\ host.enabled /\ host.ready
          /\ now < host.offers[host.active].deadline
    BY OnlyCommitsApply, Nulls DEF Commits
  <2> QED BY <2>1
<1> QED BY <1>1, AlwaysTyped, PTL DEF Spec, CommitsUnderConsent

-----------------------------------------------------------------------------
(* The grant, its consent and the authority to resume it. *)

\* A generation whose predecessor could save is loaded with what it saved, and
\* can save as well: every page load of an application gives its host the same.
SavingGoesOn == \A g \in Saving : \A h \in g .. MaxGen : h \in Saving

\* A token that was drawn and does not wait for the operator (any more), and one
\* that may still become a grant.
Spent(h, n, u) == u = None \/ (u \in Tokens /\ u <= n /\ h.offers[u].status # "pending")
May(h, n, u) == u \in Tokens /\ (h.offers[u].status = "pending" \/ u > n)

SpentAuthority(h, n, a) ==
  /\ Spent(h, n, a.secret) /\ Spent(h, n, a.consent)
  /\ a.secret = None => a = NoAuthority

AuthorityOf(h, t) ==
  [consumer |-> h.offers[t].consumer, expires |-> h.offers[t].deadline, secret |-> t,
   consent |-> h.offers[t].consent]

\* A supplier h when n tokens are drawn: the active offer is the one accepted; the
\* authority, where one can be saved, is the active grant's, and what the tab saved
\* is that authority unless it expired before the page was loaded.
HostOK(h, n, time) ==
  /\ h \in HostType
  /\ \A t \in Tokens : h.offers[t].status = "accepted" <=> h.active = t
  /\ \A t \in Tokens : t > n => h.offers[t].status = "none"
  /\ \A t \in Tokens : h.offers[t].status = "accepted" => Spent(h, n, h.offers[t].consent)
  /\ SpentAuthority(h, n, h.authority) /\ SpentAuthority(h, n, h.saved)
  /\ h.gen \notin Saving => h.authority = NoAuthority /\ h.saved = NoAuthority
  /\ h.gen \in Saving =>
       /\ h.active \in Tokens => h.authority = AuthorityOf(h, h.active)
       /\ h.saved = h.authority \/ (h.authority = NoAuthority /\ h.saved.expires <= time)

ConsentIn(h, time) ==
  IF h.active # None THEN h.offers[h.active].consent
  ELSE IF h.authority.expires > time THEN h.authority.consent ELSE None
EndIn(h) == IF h.active # None THEN h.offers[h.active].deadline ELSE h.authority.expires

\* What a step of the supplier may do to the consent: leave it with its end,
\* withdraw it, or give one that an offer was waiting for.
ConsentMoves(h, g, time) ==
  /\ \/ ConsentIn(g, time) \in {ConsentIn(h, time), None}
     \/ ConsentIn(g, time) \in Tokens /\ h.offers[ConsentIn(g, time)].status = "pending"
  /\ ConsentIn(h, time) # None /\ ConsentIn(g, time) = ConsentIn(h, time) => EndIn(g) = EndIn(h)

\* And to the tokens: only one that may become a grant does.
TokenMoves(h, n, g, m) ==
  /\ g.gen = h.gen /\ n <= m
  /\ \A t \in Tokens : g.offers[t].status = "pending" =>
       h.offers[t].status = "pending" \/ (n < t /\ t <= m)
  /\ g.active \in {h.active, None} \/ May(h, n, g.active)
  /\ g.authority \in {h.authority, NoAuthority} \/ May(h, n, g.authority.secret)

Moves(h, n, g, m, time) ==
  HostOK(g, m, time) /\ TokenMoves(h, n, g, m) /\ ConsentMoves(h, g, time)

LEMMA ConsentSpent ==
  ASSUME NEW h, NEW n, NEW time, HostOK(h, n, time)
  PROVE  Spent(h, n, ConsentIn(h, time))
<1>1. h.active \in MaybeToken
  BY DEF HostOK, HostType
<1> QED BY <1>1 DEF HostOK, SpentAuthority, ConsentIn, MaybeToken, Spent

LEMMA MovesTwice ==
  ASSUME NEW h, NEW n \in Nat, NEW time, HostOK(h, n, time), NEW g, Moves(h, n, g, n, time),
         NEW f, NEW m \in Nat, Moves(g, n, f, m, time)
  PROVE  Moves(h, n, f, m, time)
<1>1. TokenMoves(h, n, f, m)
  <2>1. \A t \in Tokens : /\ t \in Nat
                          /\ g.offers[t].status = "pending" => h.offers[t].status = "pending"
    BY Nulls DEF Moves, TokenMoves
  <2>2. \A u : May(g, n, u) => May(h, n, u)
    BY <2>1 DEF May
  <2> QED BY <2>1, <2>2 DEF Moves, TokenMoves
<1>2. ConsentMoves(h, f, time)
  <2>1. Spent(h, n, ConsentIn(h, time))
    BY ConsentSpent
  <2>2. \A t \in Tokens : g.offers[t].status = "pending" => h.offers[t].status = "pending"
    BY Nulls DEF Moves, TokenMoves
  <2> DEFINE a == ConsentIn(h, time)
             b == ConsentIn(g, time)
             c == ConsentIn(f, time)
  <2>3. b \in {a, None} \/ (b \in Tokens /\ h.offers[b].status = "pending")
    BY DEF Moves, ConsentMoves
  <2>4. c \in {b, None} \/ (c \in Tokens /\ h.offers[c].status = "pending")
    BY <2>2 DEF Moves, ConsentMoves
  <2>5. c \in {a, None} \/ (c \in Tokens /\ h.offers[c].status = "pending")
    BY <2>3, <2>4
  <2>6. ASSUME a # None, c = a PROVE EndIn(f) = EndIn(h)
    <3>1. ~ (a \in Tokens /\ h.offers[a].status = "pending")
      BY <2>1, Nulls DEF Spent
    <3>2. b = a
      BY <2>3, <2>4, <2>6, <3>1
    <3> QED BY <2>6, <3>2 DEF Moves, ConsentMoves
  <2> QED BY <2>5, <2>6 DEF ConsentMoves
<1> QED BY <1>1, <1>2 DEF Moves

LEMMA FinishMoves ==
  ASSUME NEW h, NEW n \in Nat, NEW time, HostOK(h, n, time), NEW set \in SUBSET Tokens,
         NEW g, Finishes(h, set, g)
  PROVE  Moves(h, n, g, n, time)
<1>1. /\ h \in HostType /\ h.active \in MaybeToken /\ g \in HostType /\ g.gen = h.gen
      /\ \A t \in Tokens : h.offers[t].status \in {"none", "pending", "accepted", "ended"}
      /\ \A t \in Tokens : t \in Nat
  BY Nulls DEF HostOK, HostType, OfferType, Finishes
<1>2. \A t \in Tokens :
        /\ g.offers[t].consumer = h.offers[t].consumer
        /\ g.offers[t].deadline = h.offers[t].deadline
        /\ g.offers[t].consent = h.offers[t].consent
        /\ g.offers[t].status = IF t \in set /\ h.offers[t].status \in {"pending", "accepted"}
                                THEN "ended" ELSE h.offers[t].status
  BY DEF Finishes
<1>3. \A u : Spent(h, n, u) => Spent(g, n, u)
  BY <1>2 DEF Spent
<1>4. h.active \in Tokens => h.offers[h.active].status = "accepted"
  BY DEF HostOK
<1>5. NoAuthority.secret = None /\ NoAuthority.consent = None /\ NoAuthority.expires = 0 /\ Spent(g, n, None)
  BY DEF NoAuthority, Spent, None
<1>6. CASE h.active \in set
  <2>1. /\ g.active = None /\ g.authority = NoAuthority
        /\ g.saved = IF h.gen \in Saving THEN NoAuthority ELSE h.saved
    BY <1>4, <1>6 DEF Finishes
  <2>2. HostOK(g, n, time)
    <3>1. \A t \in Tokens : g.offers[t].status = "accepted" <=> g.active = t
      BY <1>2, <1>6, <2>1, Nulls DEF HostOK
    <3>2. \A t \in Tokens : t > n => g.offers[t].status = "none"
      BY <1>2 DEF HostOK
    <3>3. SpentAuthority(g, n, g.authority) /\ SpentAuthority(g, n, g.saved)
      BY <1>3, <1>5, <2>1 DEF HostOK, SpentAuthority
    <3>4. g.authority = NoAuthority /\ g.saved = NoAuthority
      BY <2>1 DEF HostOK
    <3>5. g.active \notin Tokens
      BY <2>1, Nulls
    <3> QED BY <1>1, <3>1, <3>2, <3>3, <3>4, <3>5 DEF HostOK
  <2>3. TokenMoves(h, n, g, n)
    BY <1>1, <1>2, <2>1 DEF TokenMoves
  <2>4. ConsentIn(g, time) = None
    BY <1>5, <2>1 DEF ConsentIn
  <2>5. ConsentMoves(h, g, time)
    BY <2>4 DEF ConsentMoves
  <2> QED BY <2>2, <2>3, <2>5 DEF Moves
<1>7. CASE h.active \notin set
  <2>1. g.active = h.active /\ g.authority = h.authority /\ g.saved = h.saved
    BY <1>7 DEF Finishes
  <2>2. h.active \in Tokens => AuthorityOf(g, h.active) = AuthorityOf(h, h.active)
    BY <1>2 DEF AuthorityOf
  <2>3. HostOK(g, n, time)
    <3>1. \A t \in Tokens : g.offers[t].status = "accepted" <=> g.active = t
      BY <1>2, <1>7, <2>1 DEF HostOK
    <3>2. \A t \in Tokens : t > n => g.offers[t].status = "none"
      BY <1>2 DEF HostOK
    <3>3. \A t \in Tokens : g.offers[t].status = "accepted" => Spent(g, n, g.offers[t].consent)
      BY <1>2, <1>3, <2>1, <3>1 DEF HostOK
    <3>4. SpentAuthority(g, n, g.authority) /\ SpentAuthority(g, n, g.saved)
      BY <1>3, <2>1 DEF HostOK, SpentAuthority
    <3> QED BY <1>1, <2>1, <2>2, <3>1, <3>2, <3>3, <3>4 DEF HostOK
  <2>4. TokenMoves(h, n, g, n)
    BY <1>1, <1>2, <2>1 DEF TokenMoves
  <2>5. ConsentIn(g, time) = ConsentIn(h, time) /\ EndIn(g) = EndIn(h)
    BY <1>1, <1>2, <2>1 DEF ConsentIn, EndIn, MaybeToken
  <2>6. ConsentMoves(h, g, time)
    BY <2>5 DEF ConsentMoves
  <2> QED BY <2>3, <2>4, <2>6 DEF Moves
<1> QED BY <1>6, <1>7

\* A host that differs in nothing that is about grants.
SameGrants(g, h) ==
  /\ g \in HostType /\ g.gen = h.gen /\ g.offers = h.offers
  /\ g.active = h.active /\ g.authority = h.authority /\ g.saved = h.saved

LEMMA FlagsAreNotGrants ==
  ASSUME NEW h \in HostType, NEW b \in BOOLEAN
  PROVE  /\ SameGrants([h EXCEPT !.enabled = b], h) /\ SameGrants([h EXCEPT !.ready = b], h)
         /\ SameGrants([h EXCEPT !.resuming = b], h) /\ SameGrants([h EXCEPT !.committing = b], h)
BY DEF SameGrants, HostType

LEMMA SameMoves ==
  ASSUME NEW h, NEW n \in Nat, NEW time, HostOK(h, n, time), NEW g, SameGrants(g, h)
  PROVE  Moves(h, n, g, n, time)
<1>1. HostOK(g, n, time)
  BY DEF HostOK, SameGrants, Spent, SpentAuthority, AuthorityOf
<1>2. TokenMoves(h, n, g, n)
  BY DEF SameGrants, TokenMoves
<1>3. ConsentMoves(h, g, time)
  BY DEF SameGrants, ConsentMoves, ConsentIn, EndIn
<1> QED BY <1>1, <1>2, <1>3 DEF Moves

LEMMA EndAllMoves ==
  ASSUME NEW h, NEW n \in Nat, NEW time, HostOK(h, n, time)
  PROVE  Moves(h, n, EndAll(h), n, time)
<1>1. h \in HostType /\ h.active \in MaybeToken
  BY DEF HostOK, HostType
<1>2. PICK f : /\ Finishes(h, Tokens, f) /\ EndAll(h) = SaveResume(f, NoAuthority)
               /\ EndAll(h) \in HostType
  BY <1>1, EndAllFacts
<1>3. Moves(h, n, f, n, time) /\ HostOK(f, n, time) /\ f \in HostType
  <2>1. Moves(h, n, f, n, time)
    <3>1. Tokens \in SUBSET Tokens
      OBVIOUS
    <3> QED BY <1>2, <3>1, FinishMoves
  <2>2. HostOK(f, n, time)
    BY <2>1 DEF Moves
  <2> QED BY <2>1, <2>2 DEF HostOK
<1>4. f.active = None
  <2>1. h.active \in Tokens => h.offers[h.active].status = "accepted"
    BY DEF HostOK
  <2> QED BY <1>1, <1>2, <2>1 DEF Finishes, MaybeToken
<1> DEFINE g == EndAll(h)
<1>5. /\ g \in HostType /\ g.gen = f.gen /\ g.offers = f.offers /\ g.active = None
      /\ g.authority = NoAuthority
      /\ g.saved = IF f.gen \in Saving THEN NoAuthority ELSE f.saved
  BY <1>2, <1>3, <1>4 DEF SaveResume, HostType
<1> HIDE DEF g
<1>6. NoAuthority.secret = None /\ NoAuthority.consent = None /\ NoAuthority.expires = 0 /\ Spent(g, n, None)
  BY DEF NoAuthority, Spent, None
<1>7. HostOK(g, n, time)
  <2>1. \A u : Spent(f, n, u) => Spent(g, n, u)
    BY <1>5 DEF Spent
  <2>2. g.saved = NoAuthority
    BY <1>3, <1>5 DEF HostOK
  <2> QED BY <1>3, <1>4, <1>5, <1>6, <2>1, <2>2, Nulls DEF HostOK, SpentAuthority
<1>8. TokenMoves(f, n, g, n)
  BY <1>5 DEF TokenMoves
<1>9. ConsentMoves(f, g, time)
  <2>1. ConsentIn(g, time) = None
    BY <1>5, <1>6 DEF ConsentIn
  <2> QED BY <2>1, <1>3, ConsentSpent DEF ConsentMoves
<1> QED BY <1>3, <1>7, <1>8, <1>9, MovesTwice DEF Moves, g

\* An offer that waits is added.
LEMMA OfferMoves ==
  ASSUME NEW h, NEW n \in Nat, NEW time, HostOK(h, n, time), n + 1 \in Tokens,
         NEW o \in OfferType, o.status = "pending", h.active = None
  PROVE  Moves(h, n, [h EXCEPT !.offers[n + 1] = o], n + 1, time)
<1> DEFINE g == [h EXCEPT !.offers[n + 1] = o]
<1>1. h \in HostType
  BY DEF HostOK
<1>2. /\ g \in HostType /\ g.gen = h.gen /\ g.active = None /\ g.authority = h.authority
      /\ g.saved = h.saved
      /\ \A t \in Tokens : g.offers[t] = IF t = n + 1 THEN o ELSE h.offers[t]
  <2>1. g \in HostType
    BY <1>1, OffersType DEF MaybeToken
  <2>2. h.offers \in [Tokens -> OfferType]
    BY <1>1 DEF HostType
  <2> QED BY <1>1, <2>1, <2>2 DEF HostType
<1> HIDE DEF g
<1>3. \A u : Spent(h, n, u) => Spent(g, n + 1, u)
  <2>1. ASSUME NEW u \in Tokens, u <= n, h.offers[u].status # "pending"
        PROVE  u <= n + 1 /\ g.offers[u].status # "pending"
    <3>1. u \in Nat
      BY Nulls
    <3>2. u <= n + 1 /\ u # n + 1
      BY <2>1, <3>1
    <3> QED BY <1>2, <2>1, <3>2
  <2> QED BY <2>1 DEF Spent
<1>4. HostOK(g, n + 1, time)
  <2>1. \A t \in Tokens : t > n + 1 => g.offers[t].status = "none"
    BY <1>2, Nulls DEF HostOK
  <2>2. \A t \in Tokens : g.offers[t].status # "accepted" /\ g.active # t
    BY <1>2, Nulls DEF HostOK
  <2> QED BY <1>2, <1>3, <2>1, <2>2 DEF HostOK, SpentAuthority
<1>5. TokenMoves(h, n, g, n + 1)
  BY <1>2, Nulls DEF TokenMoves
<1>6. ConsentMoves(h, g, time)
  BY <1>2 DEF ConsentMoves, ConsentIn, EndIn
<1> QED BY <1>4, <1>5, <1>6 DEF Moves, g

GrantOn(h, t, o) == [h EXCEPT !.active = t, !.offers[t] = o]

\* A token that may become a grant does: accepted by the operator, or drawn for a
\* grant that is resumed.
LEMMA Granted ==
  ASSUME NEW h, NEW n \in Nat, NEW time, HostOK(h, n, time), h.active = None,
         NEW t \in Tokens, NEW m \in Nat, (t <= n /\ m = n) \/ (t = n + 1 /\ m = t), May(h, n, t),
         NEW o \in OfferType, o.status = "accepted", o.consent = t \/ Spent(h, n, o.consent),
         NEW g \in HostType, g = GrantOn(h, t, o)
  PROVE  /\ HostOK(Remember(g, t, t), m, time) /\ TokenMoves(h, n, Remember(g, t, t), m)
         /\ Remember(g, t, t).offers = g.offers
         /\ ConsentIn(Remember(g, t, t), time) = o.consent /\ EndIn(Remember(g, t, t)) = o.deadline
<1> DEFINE a == AuthorityOf(g, t)
           r == Remember(g, t, t)
<1>1. /\ h \in HostType /\ t \in Nat /\ t <= m /\ n <= m /\ h.gen = g.gen
      /\ \A u \in Tokens : u \in Nat
  <2>1. h \in HostType /\ \A u \in Tokens : u \in Nat
    BY Nulls DEF HostOK
  <2>2. t <= m /\ n <= m
    BY <2>1
  <2>3. g.gen = h.gen
    BY <2>1 DEF HostType, GrantOn
  <2> QED BY <2>1, <2>2, <2>3
<1>2. /\ g.active = t /\ g.authority = h.authority /\ g.saved = h.saved
      /\ \A u \in Tokens : g.offers[u] = IF u = t THEN o ELSE h.offers[u]
  BY <1>1 DEF HostType, GrantOn
<1>3. /\ a.consumer = o.consumer /\ a.expires = o.deadline /\ a.secret = t /\ a.consent = o.consent
  BY <1>2 DEF AuthorityOf
<1>4. /\ r \in HostType /\ r.gen = g.gen /\ r.active = t /\ r.offers = g.offers
      /\ g.gen \in Saving => r.authority = a /\ r.saved = a
      /\ g.gen \notin Saving => r.authority = h.authority /\ r.saved = h.saved
  <2>1. r \in HostType
    BY RememberType
  <2>2. r = IF g.gen \in Saving THEN SaveResume(g, a) ELSE g
    BY DEF Remember, AuthorityOf
  <2>3. SaveResume(g, a) = [[g EXCEPT !.authority = a] EXCEPT !.saved = IF g.gen \in Saving THEN a ELSE g.saved]
    BY DEF SaveResume, HostType
  <2> HIDE DEF a, r
  <2> QED BY <1>2, <2>1, <2>2, <2>3 DEF HostType
<1>5. AuthorityOf(r, t) = a
  BY <1>4 DEF AuthorityOf
<1> HIDE DEF a, r
<1>6. Spent(r, m, t) /\ Spent(r, m, o.consent) /\ \A u : Spent(h, n, u) /\ u # t => Spent(r, m, u)
  <2>1. o.consent \in MaybeToken
    BY DEF OfferType, MaybeToken
  <2>2. \A u : Spent(h, n, u) /\ u # t => Spent(r, m, u)
    <3>1. \A u \in Tokens : u <= n => u <= m
      BY <1>1
    <3>2. \A u \in Tokens : u # t => r.offers[u] = h.offers[u]
      BY <1>2, <1>4
    <3> QED BY <3>1, <3>2 DEF Spent
  <2>3. Spent(r, m, t)
    BY <1>1, <1>2, <1>4 DEF Spent
  <2> QED BY <2>1, <2>2, <2>3
<1>7. ~ Spent(h, n, t)
  BY <1>1, Nulls DEF May, Spent
<1>8. HostOK(r, m, time)
  <2>1. \A u \in Tokens : r.offers[u].status = "accepted" <=> r.active = u
    BY <1>2, <1>4, Nulls DEF HostOK
  <2>2. \A u \in Tokens : u > m => r.offers[u].status = "none"
    BY <1>1, <1>2, <1>4 DEF HostOK
  <2>3. \A u \in Tokens : r.offers[u].status = "accepted" => Spent(r, m, r.offers[u].consent)
    BY <1>2, <1>4, <1>6, <2>1
  <2>4. SpentAuthority(r, m, r.authority) /\ SpentAuthority(r, m, r.saved)
    <3>1. SpentAuthority(h, n, h.authority) /\ SpentAuthority(h, n, h.saved)
      BY DEF HostOK
    <3>2. SpentAuthority(r, m, h.authority) /\ SpentAuthority(r, m, h.saved)
      BY <1>6, <1>7, <3>1 DEF SpentAuthority
    <3>3. SpentAuthority(r, m, a)
      BY <1>3, <1>6, Nulls DEF SpentAuthority
    <3> QED BY <1>4, <3>2, <3>3
  <2>5. r.gen \notin Saving => r.authority = NoAuthority /\ r.saved = NoAuthority
    BY <1>1, <1>4 DEF HostOK
  <2>6. r.gen \in Saving =>
          /\ r.active \in Tokens => r.authority = AuthorityOf(r, r.active)
          /\ r.saved = r.authority
    BY <1>4, <1>5
  <2> QED BY <1>4, <2>1, <2>2, <2>3, <2>4, <2>5, <2>6 DEF HostOK
<1>9. TokenMoves(h, n, r, m)
  <2>1. \A u \in Tokens : r.offers[u].status = "pending" => h.offers[u].status = "pending"
    BY <1>2, <1>4
  <2>2. r.authority = h.authority \/ May(h, n, r.authority.secret)
    BY <1>3, <1>4
  <2> QED BY <1>1, <1>4, <2>1, <2>2 DEF TokenMoves
<1>10. ConsentIn(r, time) = o.consent /\ EndIn(r) = o.deadline
  BY <1>2, <1>4, Nulls DEF ConsentIn, EndIn
<1> QED BY <1>4, <1>8, <1>9, <1>10 DEF r

-----------------------------------------------------------------------------
(* A resumption that awaits its proofs. *)

\* The authority it was checked against was a grant's: it can become no grant
\* again, and as long as its secret is the authority's, it is the authority.
ProvingOK(k, h, n) ==
  k.at = "proving" =>
    /\ h.gen \in Saving
    /\ k.checked.secret \in Tokens /\ ~ May(h, n, k.checked.secret)
    /\ h.active # k.checked.secret
    /\ h.authority.secret = k.checked.secret => h.authority = k.checked

LEMMA ProvingKept ==
  ASSUME NEW h, NEW n \in Nat, NEW g, NEW m \in Nat, TokenMoves(h, n, g, m),
         NEW k, ProvingOK(k, h, n)
  PROVE  ProvingOK(k, g, m)
<1> SUFFICES ASSUME k.at = "proving" PROVE ProvingOK(k, g, m)
  BY DEF ProvingOK
<1> DEFINE s == k.checked.secret
<1>1. /\ h.gen \in Saving /\ s \in Tokens /\ ~ May(h, n, s) /\ h.active # s
      /\ h.authority.secret = s => h.authority = k.checked
  BY DEF ProvingOK
<1>2. ~ May(g, m, s)
  <2>1. s \in Nat /\ h.offers[s].status # "pending" /\ ~ (s > n)
    BY <1>1, Nulls DEF May
  <2>2. /\ n <= m
        /\ g.offers[s].status = "pending" => h.offers[s].status = "pending" \/ (n < s /\ s <= m)
    BY <1>1 DEF TokenMoves
  <2>3. g.offers[s].status # "pending" /\ ~ (s > m)
    BY <2>1, <2>2
  <2> QED BY <2>3 DEF May
<1>3. g.active # s
  BY <1>1, Nulls DEF TokenMoves
<1>4. g.authority.secret = s => g.authority = k.checked
  BY <1>1, Nulls DEF TokenMoves, NoAuthority, None
<1> QED BY <1>1, <1>2, <1>3, <1>4 DEF ProvingOK, TokenMoves

Grants ==
  /\ HostOK(host, tokens, now)
  /\ \A k \in calls : ProvingOK(k, host, tokens)

HostMoves == Moves(host, tokens, host', tokens', now)

LEMMA ExpireMoves ==
  ASSUME Typed, Grants
  PROVE  /\ tokens \in Nat /\ Moves(host, tokens, Expire(host), tokens, now)
         /\ HostOK(Expire(host), tokens, now)
<1>1. tokens \in Nat
  BY Nulls DEF Typed
<1>2. Finishes(host, {t \in Tokens : now >= host.offers[t].deadline}, Expire(host))
  BY ExpireFinishes DEF Typed
<1> QED BY <1>1, <1>2, FinishMoves DEF Grants, Moves

LEMMA AcceptMoves ==
  ASSUME Typed, Grants, NEW t \in Tokens, Accept(t)
  PROVE  HostMoves
<1> DEFINE h == Expire(host)
           o == [h.offers[t] EXCEPT !.status = "accepted", !.deadline = now + GrantTTL, !.consent = t]
           g == [h EXCEPT !.active = t,
                   !.offers[t] = [@ EXCEPT !.status = "accepted",
                                  !.deadline = now + GrantTTL, !.consent = t]]
           r == Remember(g, t, t)
           rest == {u \in Tokens : g.offers[u].status = "pending"}
<1>1. /\ tokens \in Nat /\ Moves(host, tokens, h, tokens, now) /\ HostOK(h, tokens, now)
      /\ h \in HostType
  BY ExpireMoves DEF HostOK
<1>2. /\ h.offers[t].status = "pending" /\ h.active = None
      /\ host' = Finish(r, rest) /\ tokens' = tokens
  BY DEF Accept, MayAccept, Operate
<1>3. /\ o \in OfferType /\ g = [h EXCEPT !.active = t, !.offers[t] = o] /\ g \in HostType
  BY <1>1, AcceptedType
<1>4. o.status = "accepted" /\ o.consent = t
  <2>1. h.offers[t] \in OfferType
    BY <1>1 DEF HostType
  <2> QED BY <2>1 DEF OfferType
<1>5. rest \in SUBSET Tokens
  OBVIOUS
<1> HIDE DEF h, o, g, r, rest
<1>6. /\ May(h, tokens, t) /\ g = GrantOn(h, t, o)
      /\ (t <= tokens /\ tokens = tokens) \/ (t = tokens + 1 /\ tokens = t)
  <2>1. t \in Nat /\ ~ (t > tokens)
    BY <1>1, <1>2, Nulls DEF HostOK
  <2> QED BY <1>1, <1>2, <1>3, <2>1 DEF May, GrantOn
<1>7. /\ HostOK(r, tokens, now) /\ TokenMoves(h, tokens, r, tokens)
      /\ ConsentIn(r, now) = t
  <2>1. /\ HostOK(Remember(g, t, t), tokens, now) /\ TokenMoves(h, tokens, Remember(g, t, t), tokens)
        /\ ConsentIn(Remember(g, t, t), now) = o.consent
    BY <1>1, <1>2, <1>3, <1>4, <1>6, Granted
  <2> QED BY <1>4, <2>1 DEF r
<1>8. Moves(h, tokens, r, tokens, now)
  <2>1. Spent(h, tokens, ConsentIn(h, now))
    BY <1>1, ConsentSpent
  <2>2. t # ConsentIn(h, now)
    BY <1>2, <2>1, Nulls DEF Spent
  <2> QED BY <1>2, <1>7, <2>2 DEF Moves, ConsentMoves
<1>9. Moves(r, tokens, host', tokens, now)
  <2>1. r \in HostType
    BY <1>7 DEF HostOK
  <2>2. Finishes(r, rest, Finish(r, rest))
    BY <1>5, <2>1, FinishFinishes
  <2>3. Moves(r, tokens, Finish(r, rest), tokens, now)
    BY <1>1, <1>5, <1>7, <2>2, FinishMoves
  <2> QED BY <1>2, <2>3
<1>10. Moves(host, tokens, r, tokens, now)
  BY <1>1, <1>8, MovesTwice DEF Grants
<1>11. Moves(host, tokens, host', tokens, now)
  BY <1>1, <1>9, <1>10, MovesTwice DEF Grants
<1> QED BY <1>2, <1>11 DEF HostMoves

LEMMA OperatorMoves ==
  ASSUME Typed, Grants,
         \/ \E on \in BOOLEAN : Enable(on) \/ SetReady(on)
         \/ \E t \in Tokens : Accept(t) \/ Decline(t)
         \/ Stop \/ Look
  PROVE  HostMoves
<1>1. host \in HostType /\ tokens \in Nat /\ HostOK(host, tokens, now)
  BY ExpireMoves DEF Typed, Grants
<1>2. Moves(host, tokens, EndAll(host), tokens, now)
  BY <1>1, EndAllMoves
<1>3. Moves(host, tokens, host, tokens, now)
  BY <1>1, SameMoves DEF SameGrants
<1>4. ASSUME NEW on \in BOOLEAN, Enable(on) \/ SetReady(on) PROVE HostMoves
  <2> DEFINE f == IF on THEN host ELSE EndAll(host)
  <2>1. Moves(host, tokens, f, tokens, now) /\ f \in HostType
    BY <1>1, <1>2, <1>3 DEF Moves, HostOK
  <2>2. SameGrants(host', f) /\ tokens' = tokens
    <3> HIDE DEF f
    <3>1. host' = [f EXCEPT !.enabled = on] \/ host' = [f EXCEPT !.ready = on]
      BY <1>4 DEF Enable, SetReady, Operate, f
    <3> QED BY <1>4, <2>1, <3>1, FlagsAreNotGrants DEF Enable, SetReady, Operate
  <2> HIDE DEF f
  <2>3. Moves(f, tokens, host', tokens, now)
    BY <1>1, <2>1, <2>2, SameMoves DEF Moves
  <2> QED BY <1>1, <2>1, <2>2, <2>3, MovesTwice DEF HostMoves
<1>5. ASSUME NEW t \in Tokens, Decline(t) PROVE HostMoves
  <2>1. host' = Finish(host, {t}) /\ tokens' = tokens
    BY <1>5 DEF Decline, Operate
  <2>2. Finishes(host, {t}, Finish(host, {t}))
    BY <1>1, FinishFinishes
  <2> QED BY <1>1, <2>1, <2>2, FinishMoves DEF HostMoves
<1>6. CASE Stop \/ Look
  BY <1>2, <1>6, ExpireMoves DEF Stop, Look, Operate, HostMoves
<1> QED BY <1>4, <1>5, <1>6, AcceptMoves

\* A request is new to its proofs only where it was found to be allowed.
ProvingKnown == \A j \in calls' : j \in calls \/ ProvingOK(j, host', tokens')

LEMMA AnsweredKnown ==
  ASSUME NEW k, CallOK(k), NEW a, calls' = Answered(k, a)
  PROVE  ProvingKnown
<1>1. ToAnswered(k, a).at = "answered"
  BY DEF ToAnswered, CallOK, CallType
<1> QED BY <1>1 DEF Answered, ToAnswered, ProvingKnown, ProvingOK

LEMMA ReceivedKnown ==
  ASSUME NEW k, CallOK(k), k.op # "resume", Received(k)
  PROVE  ProvingKnown
<1>1. CASE \E a : calls' = Answered(k, a)
  BY <1>1, AnsweredKnown
<1>2. CASE \E j : CallOK(j) /\ SameRequest(j, k) /\ calls' = (calls \ {k}) \cup {j}
  BY <1>2 DEF CallOK, SameRequest, ProvingKnown, ProvingOK
<1> QED BY <1>1, <1>2 DEF Received

LEMMA TurnAwayMoves ==
  ASSUME Typed, Grants, NEW k \in calls, TurnAway(k)
  PROVE  HostMoves /\ ProvingKnown /\ now' = now
<1>1. CallOK(k)
  BY DEF Typed
<1>2. host' = Expire(host) /\ tokens' = tokens /\ now' = now /\ \E a : calls' = Answered(k, a)
  BY DEF TurnAway, Reply
<1> QED BY <1>1, <1>2, ExpireMoves, AnsweredKnown DEF HostMoves

LEMMA OfferedMoves ==
  ASSUME Typed, Grants, NEW k \in calls, ReceiveOffer(k)
  PROVE  HostMoves /\ ProvingKnown /\ now' = now
<1>1. /\ tokens \in Nat /\ Moves(host, tokens, Expire(host), tokens, now)
      /\ HostOK(Expire(host), tokens, now) /\ HostOK(host, tokens, now)
  BY ExpireMoves DEF Grants
<1>2. Received(k) /\ CallOK(k) /\ k.op = "offer"
  BY OfferReceived DEF Typed, ReceiveOffer
<1>3. ASSUME host' = Expire(host), tokens' = tokens PROVE HostMoves
  <2> DEFINE h == Expire(host)
  <2>1. Moves(host, tokens, h, tokens, now) /\ host' = h
    BY <1>1, <1>3
  <2> HIDE DEF h
  <2> QED BY <1>3, <2>1 DEF HostMoves
<1>4. ASSUME /\ tokens + 1 \in Tokens /\ tokens' = tokens + 1 /\ Expire(host).active = None
             /\ \E o \in OfferType : /\ o.status = "pending"
                                    /\ host' = [Expire(host) EXCEPT !.offers[tokens + 1] = o]
      PROVE  HostMoves
  <2>1. Moves(Expire(host), tokens, host', tokens + 1, now)
    BY <1>1, <1>4, OfferMoves
  <2>2. tokens + 1 \in Nat
    BY <1>1
  <2>3. Moves(host, tokens, host', tokens + 1, now)
    BY <1>1, <2>1, <2>2, MovesTwice
  <2> QED BY <1>4, <2>3 DEF HostMoves
<1>5. HostMoves
  BY <1>3, <1>4, OfferReceived
<1> QED BY <1>2, <1>5, ReceivedKnown DEF Received

LEMMA ResumeMoves ==
  ASSUME Typed, Grants, NEW k \in calls, ReceiveResume(k)
  PROVE  HostMoves /\ ProvingKnown /\ now' = now
<1> DEFINE h == Expire(host)
<1>1. /\ tokens \in Nat /\ Moves(host, tokens, h, tokens, now) /\ HostOK(h, tokens, now)
      /\ h \in HostType /\ CallOK(k) /\ k.c \in Consumers /\ HostOK(host, tokens, now)
  BY ExpireMoves DEF HostOK, Typed, CallOK, CallType, Grants
<1>2. Received(k) /\ tokens' = tokens
  BY ResumeReceived
<1>3. CASE host' = h /\ \E a : calls' = Answered(k, a)
  BY <1>1, <1>2, <1>3, AnsweredKnown DEF HostMoves, Received
<1>4. CASE /\ host' = [h EXCEPT !.resuming = TRUE] /\ h.active = None
           /\ h.authority.consumer = k.c /\ h.authority \in AuthorityType
           /\ calls' = (calls \ {k}) \cup {ToProving(k, h.authority)}
  <2> HIDE DEF h
  <2>1. SameGrants(host', h)
    BY <1>1, <1>4, FlagsAreNotGrants
  <2>2. Moves(h, tokens, host', tokens, now)
    BY <1>1, <2>1, SameMoves
  <2>3. HostMoves
    BY <1>1, <1>2, <2>2, MovesTwice DEF HostMoves
  <2> DEFINE j == ToProving(k, h.authority)
  <2>4. j.checked = h.authority
    BY <1>1, <1>4 DEF ToProving, CallOK, CallType
  <2>5. h.gen \in Saving /\ h.authority.secret \in Tokens /\ ~ May(h, tokens, h.authority.secret)
    <3>1. h.authority # NoAuthority
      BY <1>1, <1>4, Nulls DEF NoAuthority
    <3>2. h.authority.secret \in MaybeToken
      BY <1>4 DEF AuthorityType, MaybeToken
    <3>3. h.gen \in Saving /\ Spent(h, tokens, h.authority.secret) /\ h.authority.secret # None
      BY <1>1, <3>1 DEF HostOK, SpentAuthority
    <3>4. /\ h.authority.secret \in Tokens /\ h.authority.secret <= tokens
          /\ h.offers[h.authority.secret].status # "pending"
      BY <3>2, <3>3 DEF Spent, MaybeToken
    <3>5. h.authority.secret \in Nat
      BY <3>4, Nulls
    <3> QED BY <1>1, <3>3, <3>4, <3>5 DEF May
  <2>6. ProvingOK(j, host', tokens')
    BY <1>2, <1>4, <2>1, <2>4, <2>5, Nulls DEF ProvingOK, SameGrants, May
  <2> QED BY <1>2, <1>4, <2>3, <2>6 DEF ProvingKnown, Received
<1> QED BY <1>3, <1>4, ResumeReceived

LEMMA ProvedMoves ==
  ASSUME Typed, Grants, NEW k \in calls, Proved(k)
  PROVE  HostMoves /\ ProvingKnown /\ now' = now
<1> DEFINE h == [host EXCEPT !.resuming = FALSE]
           t == tokens + 1
           o == [consumer |-> k.c, deadline |-> k.checked.expires,
                 status |-> "accepted", consent |-> k.checked.consent]
           g == [h EXCEPT !.active = t, !.offers[t] = o]
<1>1. /\ tokens \in Nat /\ HostOK(host, tokens, now) /\ host \in HostType /\ CallOK(k)
      /\ k.at = "proving" /\ ProvingOK(k, host, tokens) /\ k.checked \in AuthorityType
  BY ExpireMoves DEF Grants, Typed, CallOK, CallType, Proved
<1>2. SameGrants(h, host)
  BY <1>1, FlagsAreNotGrants
<1>3. Moves(host, tokens, h, tokens, now) /\ HostOK(h, tokens, now)
  BY <1>1, <1>2, SameMoves DEF Moves
<1>4. Received(k) /\ \E a : calls' = Answered(k, a)
  BY ProvedReceived
<1>5. CASE host' = h /\ tokens' = tokens
  BY <1>1, <1>3, <1>4, <1>5, AnsweredKnown DEF HostMoves, Received
<1>6. CASE /\ t \in Tokens /\ tokens' = t /\ StillMay(k) /\ o \in OfferType /\ g \in HostType
           /\ host' = Remember(g, t, t)
  <2>1. /\ h.authority = k.checked /\ h.gen \in Saving /\ k.checked.expires > now
        /\ h.active # k.checked.secret
    BY <1>1, <1>2, <1>6 DEF StillMay, ProvingOK, SameGrants
  <2>2. h.active = None
    <3>1. h.active \in MaybeToken
      BY <1>2 DEF SameGrants, HostType
    <3>2. h.active \in Tokens => h.authority.secret = h.active
      BY <1>3, <2>1 DEF HostOK, AuthorityOf
    <3> QED BY <2>1, <3>1, <3>2 DEF MaybeToken
  <2>3. o.status = "accepted" /\ o.consent = k.checked.consent /\ o.deadline = k.checked.expires
    OBVIOUS
  <2>4. Spent(h, tokens, k.checked.consent)
    BY <1>3, <2>1 DEF HostOK, SpentAuthority
  <2>5. /\ t = tokens + 1 /\ t \in Nat /\ g = GrantOn(h, t, o)
        /\ (t <= tokens /\ t = tokens) \/ (t = tokens + 1 /\ t = t)
    BY <1>1 DEF GrantOn
  <2> HIDE DEF h, o, t, g
  <2>6. May(h, tokens, t)
    BY <1>1, <1>6, <2>5 DEF May
  <2>7. /\ HostOK(host', t, now) /\ TokenMoves(h, tokens, host', t)
        /\ ConsentIn(host', now) = k.checked.consent /\ EndIn(host') = k.checked.expires
    <3>1. t \in Tokens /\ o \in OfferType /\ g \in HostType /\ host' = Remember(g, t, t)
      BY <1>6
    <3>2. /\ HostOK(Remember(g, t, t), t, now) /\ TokenMoves(h, tokens, Remember(g, t, t), t)
          /\ ConsentIn(Remember(g, t, t), now) = o.consent
          /\ EndIn(Remember(g, t, t)) = o.deadline
      BY <1>1, <1>3, <2>2, <2>3, <2>4, <2>5, <2>6, <3>1, Granted
    <3> QED BY <2>3, <3>1, <3>2
  <2>8. ConsentMoves(h, host', now)
    BY <2>1, <2>2, <2>7 DEF ConsentMoves, ConsentIn, EndIn
  <2>9. Moves(h, tokens, host', t, now)
    BY <2>7, <2>8 DEF Moves
  <2>10. HostMoves
    BY <1>1, <1>3, <1>6, <2>5, <2>9, MovesTwice DEF HostMoves
  <2> QED BY <1>1, <1>4, <2>10, AnsweredKnown DEF Received
<1> QED BY <1>5, <1>6, ProvedReceived

LEMMA OnMoves ==
  ASSUME Typed, Grants, NEW k \in calls, ReceiveOn(k)
  PROVE  HostMoves /\ ProvingKnown /\ now' = now
<1> DEFINE h == Expire(host)
<1>1. /\ tokens \in Nat /\ Moves(host, tokens, h, tokens, now) /\ HostOK(h, tokens, now)
      /\ h \in HostType /\ CallOK(k) /\ HostOK(host, tokens, now)
  BY ExpireMoves DEF HostOK, Typed, Grants
<1>2. /\ Received(k) /\ tokens' = tokens /\ k.op # "resume"
      /\ \/ host' = h
         \/ k.token \in Tokens /\ host' = Finish(h, {k.token})
         \/ host' = [h EXCEPT !.committing = TRUE]
  BY OnReceived DEF ReceiveOn
<1> HIDE DEF h
<1>3. HostMoves
  <2>1. CASE host' = h
    BY <1>1, <1>2, <2>1 DEF HostMoves
  <2>2. CASE k.token \in Tokens /\ host' = Finish(h, {k.token})
    <3>1. Finishes(h, {k.token}, host')
      BY <1>1, <2>2, FinishFinishes
    <3>2. Moves(h, tokens, host', tokens, now)
      BY <1>1, <2>2, <3>1, FinishMoves
    <3> QED BY <1>1, <1>2, <3>2, MovesTwice DEF HostMoves
  <2>3. CASE host' = [h EXCEPT !.committing = TRUE]
    <3>1. SameGrants(host', h)
      BY <1>1, <2>3, FlagsAreNotGrants
    <3>2. Moves(h, tokens, host', tokens, now)
      BY <1>1, <3>1, SameMoves
    <3> QED BY <1>1, <1>2, <3>2, MovesTwice DEF HostMoves
  <2> QED BY <1>2, <2>1, <2>2, <2>3
<1> QED BY <1>1, <1>2, <1>3, ReceivedKnown DEF Received

LEMMA PreparedMoves ==
  ASSUME Typed, Grants, NEW k \in calls, NEW outcome, Prepared(k, outcome)
  PROVE  HostMoves /\ ProvingKnown /\ now' = now
<1> DEFINE f == [host EXCEPT !.committing = FALSE]
<1>1. /\ tokens \in Nat /\ HostOK(host, tokens, now) /\ host \in HostType /\ CallOK(k)
  BY ExpireMoves DEF Grants, Typed
<1>2. /\ host' = f \/ host' = Expire(f)
      /\ tokens' = tokens /\ now' = now /\ \E a : calls' = Answered(k, a)
  BY DEF Prepared
<1>3. SameGrants(f, host)
  BY <1>1, FlagsAreNotGrants
<1>4. Moves(host, tokens, f, tokens, now) /\ HostOK(f, tokens, now) /\ f \in HostType
  BY <1>1, <1>3, SameMoves DEF Moves, SameGrants
<1> HIDE DEF f
<1>5. Moves(f, tokens, Expire(f), tokens, now)
  <2>1. Finishes(f, {t \in Tokens : now >= f.offers[t].deadline}, Expire(f))
    BY <1>4, ExpireFinishes
  <2> QED BY <1>1, <1>4, <2>1, FinishMoves
<1>6. Moves(host, tokens, Expire(f), tokens, now)
  BY <1>1, <1>4, <1>5, MovesTwice
<1> QED BY <1>1, <1>2, <1>4, <1>6, AnsweredKnown DEF HostMoves

LEMMA ReceivesMoves ==
  ASSUME Typed, Grants, NEW k \in calls, Receives(k)
  PROVE  HostMoves /\ ProvingKnown /\ now' = now
BY TurnAwayMoves, OfferedMoves, ResumeMoves, ProvedMoves, OnMoves, PreparedMoves DEF Receives

-----------------------------------------------------------------------------
(* Every step keeps the grants, and does to the consent only what it may. *)

GrantSteps ==
  /\ Consent # None /\ Consent' = Consent => ConsentEnd' = ConsentEnd
  /\ Consent' \notin {Consent, None} => host.offers[Consent'].status = "pending"

LEMMA ConsentIs ==
  /\ Consent = ConsentIn(host, now) /\ ConsentEnd = EndIn(host)
  /\ Consent' = ConsentIn(host', now') /\ ConsentEnd' = EndIn(host')
BY DEF Consent, ConsentEnd, ConsentIn, EndIn

LEMMA MovesGrants ==
  ASSUME Typed, Grants, HostMoves, ProvingKnown, now' = now, tokens' \in Nat
  PROVE  Grants' /\ GrantSteps
<1>1. HostOK(host', tokens', now') /\ TokenMoves(host, tokens, host', tokens') /\ tokens \in Nat
  BY Nulls DEF HostMoves, Moves, Typed
<1>2. \A j \in calls' : ProvingOK(j, host', tokens')
  BY <1>1, ProvingKept DEF ProvingKnown, Grants
<1>3. ConsentMoves(host, host', now)
  BY DEF HostMoves, Moves
<1>4. GrantSteps
  <2> HIDE DEF Consent, ConsentEnd
  <2> QED BY <1>3, ConsentIs DEF GrantSteps, ConsentMoves
<1> QED BY <1>1, <1>2, <1>4 DEF Grants

\* Steps that leave the supplier alone and find no resumption allowed.
LEMMA QuietGrants ==
  ASSUME Grants, UNCHANGED <<host, tokens, now>>,
         \A j \in calls' : j.at = "proving" =>
           \E k \in calls : k.at = "proving" /\ k.checked = j.checked
  PROVE  Grants' /\ GrantSteps
<1>1. \A j \in calls' : ProvingOK(j, host', tokens')
  BY DEF Grants, ProvingOK
<1>2. HostOK(host', tokens', now')
  BY DEF Grants
<1>3. GrantSteps
  BY ConsentIs DEF GrantSteps
<1> QED BY <1>1, <1>2, <1>3 DEF Grants

LEMMA TickGrants ==
  ASSUME Typed, Grants, Tick
  PROVE  Grants' /\ GrantSteps
<1>1. /\ UNCHANGED <<host, calls, tokens>> /\ now' = now + 1 /\ now \in Nat
      /\ host.authority.expires \in Nat /\ host.saved.expires \in Nat
      /\ HostOK(host, tokens, now)
  BY DEF Tick, Typed, HostType, AuthorityType, Grants
<1>2. HostOK(host', tokens', now')
  BY <1>1 DEF HostOK
<1>3. \A k \in calls' : ProvingOK(k, host', tokens')
  BY <1>1 DEF Grants
<1>4. GrantSteps
  BY <1>1, ConsentIs DEF GrantSteps, ConsentIn, EndIn
<1> QED BY <1>2, <1>3, <1>4 DEF Grants

LEMMA ReloadGrants ==
  ASSUME SavingGoesOn, Typed, Grants, Reload
  PROVE  Grants' /\ GrantSteps
<1> DEFINE s == host.saved
           h == host'
<1>1. /\ UNCHANGED <<tokens, now>> /\ h = Fresh(host.gen + 1, s) /\ now \in Nat
      /\ host.gen \in Nat /\ host.gen < MaxGen /\ s \in AuthorityType /\ HostOK(host, tokens, now)
      /\ host.active \in MaybeToken
  BY DEF Reload, Typed, HostType, Grants
<1>2. /\ h \in HostType /\ h.gen = host.gen + 1 /\ h.active = None /\ h.saved = s
      /\ h.authority = (IF s.expires > now THEN s ELSE NoAuthority)
      /\ \A t \in Tokens : h.offers[t].status = "none"
  <2>1. h \in HostType
    BY ReloadTyped DEF Typed
  <2> QED BY <1>1, <2>1 DEF Fresh, NoOffer
<1>3. h.gen \notin Saving => host.gen \notin Saving
  BY <1>1, <1>2, BoundsAssumption DEF SavingGoesOn
<1>4. NoAuthority.secret = None /\ NoAuthority.consent = None /\ NoAuthority.expires = 0
  BY DEF NoAuthority, None
<1> HIDE DEF h, s
<1>5. HostOK(h, tokens, now)
  <2>1. \A u : Spent(host, tokens, u) => Spent(h, tokens, u)
    BY <1>2 DEF Spent
  <2>2. SpentAuthority(h, tokens, s) /\ SpentAuthority(h, tokens, h.authority)
    BY <1>1, <1>2, <1>4, <2>1 DEF HostOK, SpentAuthority, Spent, s
  <2>3. h.gen \notin Saving => h.authority = NoAuthority /\ h.saved = NoAuthority
    BY <1>1, <1>2, <1>3 DEF HostOK, s
  <2>4. h.saved = h.authority \/ (h.authority = NoAuthority /\ h.saved.expires <= now)
    BY <1>1, <1>2 DEF AuthorityType
  <2> QED BY <1>2, <2>2, <2>3, <2>4, Nulls DEF HostOK
<1>6. \A j \in calls' : j.at # "proving"
  <2>1. \A k \in calls : ToLost(k).at = "lost"
    BY MovedOn DEF Typed
  <2> QED BY <2>1 DEF Reload, ToLost
<1>7. GrantSteps
  <2>1. CASE s.expires > now
    <3>1. host.authority = s
      <4>1. s.expires \in Nat
        BY <1>1 DEF AuthorityType
      <4>2. /\ host.gen \notin Saving => s = NoAuthority /\ host.authority = NoAuthority
            /\ host.gen \in Saving => s = host.authority \/ s.expires <= now
        BY <1>1 DEF HostOK, s
      <4> QED BY <1>1, <2>1, <4>1, <4>2
    <3>2. host.active \in Tokens => s = AuthorityOf(host, host.active)
      <4>1. host.gen \in Saving
        BY <1>1, <1>4, <2>1 DEF HostOK, s
      <4> QED BY <1>1, <3>1, <4>1 DEF HostOK
    <3>3. ConsentIn(host, now) = s.consent /\ EndIn(host) = s.expires
      BY <1>1, <2>1, <3>1, <3>2 DEF ConsentIn, EndIn, AuthorityOf, MaybeToken
    <3>4. ConsentIn(h, now) = s.consent /\ EndIn(h) = s.expires
      BY <1>2, <2>1 DEF ConsentIn, EndIn
    <3> QED BY <1>1, <3>3, <3>4, ConsentIs DEF GrantSteps, h
  <2>2. CASE ~ (s.expires > now)
    <3>1. ConsentIn(h, now) = None
      BY <1>1, <1>2, <1>4, <2>2 DEF ConsentIn
    <3> QED BY <1>1, <3>1, ConsentIs DEF GrantSteps, h
  <2> QED BY <2>1, <2>2
<1> QED BY <1>1, <1>5, <1>6, <1>7 DEF Grants, ProvingOK, h

LEMMA ConsumersQuiet ==
  ASSUME Typed, Grants,
         \/ \E k \in calls : Return(k) \/ GiveUp(k)
         \/ \E c \in Consumers : Sends(c) \/ Abandon(c) \/ Disconnect(c)
  PROVE  Grants' /\ GrantSteps
<1>1. ASSUME NEW k \in calls, Return(k) PROVE Grants' /\ GrantSteps
  <2>1. UNCHANGED <<host, tokens, now>>
    BY <1>1 DEF Return
  <2>2. \A j \in calls' : j \in calls \/ j.at = "sent"
    <3>1. ASSUME NEW token PROVE Request(k.c, "undo", k.gen, token, 0, NoGrant).at = "sent"
      BY DEF Request
    <3>2. \/ calls' = calls \ {k}
          \/ calls' = (calls \ {k}) \cup {Request(k.c, "undo", k.gen, k.answer.token, 0, NoGrant)}
      BY <1>1 DEF Return, ConcludeResume
    <3> QED BY <3>1, <3>2
  <2> QED BY <2>1, <2>2, QuietGrants
<1>2. ASSUME NEW k \in calls, GiveUp(k) PROVE Grants' /\ GrantSteps
  <2>1. UNCHANGED <<host, tokens, now>>
    BY <1>2 DEF GiveUp
  <2>2. calls' \subseteq calls \cup {ToUnheard(k)}
    BY <1>2 DEF GiveUp, ToUnheard
  <2>3. CallOK(k)
    BY DEF Typed
  <2>4. ToUnheard(k).at = k.at /\ ToUnheard(k).checked = k.checked
    BY <2>3, MovedOn
  <2> QED BY <2>1, <2>2, <2>4, QuietGrants
<1>3. ASSUME NEW c \in Consumers, Sends(c) PROVE Grants' /\ GrantSteps
  <2>1. UNCHANGED <<host, tokens, now>> /\ \A j \in calls' : j \in calls \/ j.at = "sent"
    BY <1>3 DEF Sends, Send
  <2> QED BY <2>1, QuietGrants
<1>4. ASSUME NEW c \in Consumers, Abandon(c) \/ Disconnect(c) PROVE Grants' /\ GrantSteps
  BY <1>4, QuietGrants DEF Abandon, Disconnect
<1> QED BY <1>1, <1>2, <1>3, <1>4

LEMMA InitGrants == Init => Grants
<1> SUFFICES ASSUME Init PROVE Grants
  OBVIOUS
<1>1. /\ host \in HostType /\ tokens = 0 /\ now = 0 /\ calls = {}
      /\ \A t \in Tokens : host.offers[t].status = "none"
      /\ host.active = None /\ host.authority = NoAuthority /\ host.saved = NoAuthority
  BY InitTyped DEF Typed, Init, Fresh, NoOffer
<1>2. HostOK(host, tokens, now)
  <2>1. SpentAuthority(host, tokens, NoAuthority)
    BY DEF SpentAuthority, Spent, NoAuthority, None
  <2> QED BY <1>1, <2>1, Nulls DEF HostOK
<1> QED BY <1>1, <1>2 DEF Grants

LEMMA NextGrants ==
  ASSUME SavingGoesOn, Typed, Grants, [Next]_vars
  PROVE  Grants' /\ GrantSteps
<1>0. tokens' \in Nat
  <2>1. Typed'
    BY NextTyped
  <2> QED BY <2>1, Nulls DEF Typed
<1>1. CASE UNCHANGED vars
  BY <1>1, QuietGrants DEF vars
<1>2. CASE \/ \E on \in BOOLEAN : Enable(on) \/ SetReady(on)
           \/ \E t \in Tokens : Accept(t) \/ Decline(t)
           \/ Stop \/ Look
  <2>1. HostMoves /\ now' = now /\ calls' = calls
    BY <1>2, OperatorMoves, OperatorTyped
  <2> QED BY <1>0, <2>1, MovesGrants DEF ProvingKnown
<1>3. CASE Tick
  BY <1>3, TickGrants
<1>4. CASE Edit
  BY <1>4, QuietGrants DEF Edit
<1>5. CASE Reload
  BY <1>5, ReloadGrants
<1>6. ASSUME NEW k \in calls, Receives(k) PROVE Grants' /\ GrantSteps
  BY <1>0, <1>6, ReceivesMoves, MovesGrants
<1>7. ASSUME NEW k \in calls, Return(k) \/ GiveUp(k) PROVE Grants' /\ GrantSteps
  BY <1>7, ConsumersQuiet
<1>8. ASSUME NEW c \in Consumers,
             \/ Offer(c) \/ Read(c) \/ Abandon(c) \/ Disconnect(c)
             \/ \E t \in Tokens : Status(c, t) \/ End(c, t)
             \/ \E expect \in 0 .. version : Invoke(c, expect)
             \/ \E gen \in 1 .. host.gen : Resume(c, gen)
      PROVE  Grants' /\ GrantSteps
  <2>1. Sends(c) \/ Abandon(c) \/ Disconnect(c)
    BY <1>8, Asks
  <2> QED BY <2>1, ConsumersQuiet
<1> QED BY <1>1, <1>2, <1>3, <1>4, <1>5, <1>6, <1>7, <1>8 DEF Next, Receives

LEMMA AlwaysGrants == SavingGoesOn => (Spec => []Grants)
<1> SUFFICES ASSUME SavingGoesOn PROVE Spec => []Grants
  OBVIOUS
<1>1. Typed /\ Grants /\ [Next]_vars => Grants'
  BY NextGrants
<1> QED BY <1>1, InitGrants, AlwaysTyped, PTL DEF Spec

(* One consumer at a time: where every generation can save its authority, an *)
(* offer is accepted exactly when it is the active one, although another may *)
(* be accepted while a resumption awaits its proofs.                         *)
THEOREM OneConsumerActs == SavingGoesOn => (Spec => []OneGrant)
<1> SUFFICES ASSUME SavingGoesOn PROVE Spec => []OneGrant
  OBVIOUS
<1>1. Grants => OneGrant
  BY DEF Grants, HostOK, OneGrant
<1> QED BY <1>1, AlwaysGrants, PTL

(* However often and into whatever generation a consent is resumed, it ends  *)
(* when the grant the operator accepted would have ended.                    *)
THEOREM ResumedToTheSameEnd == SavingGoesOn => (Spec => GrantBounded)
<1> SUFFICES ASSUME SavingGoesOn PROVE Spec => GrantBounded
  OBVIOUS
<1>1. Typed /\ Grants /\ [Next]_vars =>
        [Consent # None /\ Consent' = Consent => ConsentEnd' = ConsentEnd]_vars
  BY NextGrants DEF GrantSteps
<1> QED BY <1>1, AlwaysTyped, AlwaysGrants, PTL DEF Spec, GrantBounded

(* A consent that was withdrawn, has run out or never was comes only from    *)
(* the acceptance of an offer that waited for the operator.                  *)
THEOREM ConsentIsTheOperators == SavingGoesOn => (Spec => OnlyAcceptGives)
<1> SUFFICES ASSUME SavingGoesOn PROVE Spec => OnlyAcceptGives
  OBVIOUS
<1>1. Typed /\ Grants /\ [Next]_vars =>
        [Consent' \notin {Consent, None} => host.offers[Consent'].status = "pending"]_vars
  BY NextGrants DEF GrantSteps
<1> QED BY <1>1, AlwaysTyped, AlwaysGrants, PTL DEF Spec, OnlyAcceptGives
===============================================================================
