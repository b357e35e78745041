------------------------------ MODULE Assistance ------------------------------
(***************************************************************************)
(* The assistance protocol: one supplier, whose operator lets at most one  *)
(* consumer act on the application, and the consumers that ask for it.     *)
(* Requests are records in `calls`. What the supplier does between two     *)
(* awaits of receive() is one step; a consumer waits for the answer and    *)
(* may give up waiting while the supplier still works on the request.      *)
(* A reload replaces the supplier by a fresh generation that knows only    *)
(* the resume authority the tab saved.                                     *)
(***************************************************************************)
EXTENDS Integers, FiniteSets

CONSTANTS
  Consumers,  \* the consumers that may ask
  Joins,      \* Joins[c]: the generation consumer c discovers first
  Saving,     \* the generations whose host was given a saveResume
  MaxTokens,  \* bound on the offers ever made
  MaxNow,     \* bound on the clock
  MaxGen,     \* bound on the supplier's generations
  MaxVersion, \* bound on the changes of the application
  Capacity,   \* 128: the offers one generation keeps
  MaxCalls,   \* MaxCalls[c][op]: how many requests of a kind c ever makes
  OfferTTL, GrantTTL, RequestTTL   \* 60 s, the grant's duration and 10 s, in ticks

None == 0
Tokens == 1 .. MaxTokens
\* "undo" is the end a consumer sends for a grant it resumed too late.
Kinds == {"offer", "status", "read", "invoke", "end", "resume", "undo"}

ASSUME BoundsAssumption ==
  /\ None \notin Consumers
  /\ {MaxTokens, MaxNow, MaxGen, MaxVersion, Capacity} \subseteq Nat
  /\ Joins \in [Consumers -> 1 .. MaxGen]
  /\ MaxCalls \in [Consumers -> [Kinds -> Nat]]
  /\ {OfferTTL, GrantTTL, RequestTTL} \subseteq Nat \ {0}

VARIABLES
  now,      \* the clock both sides read
  version,  \* sequence and revision of the application's state
  host,     \* the supplier
  peer,     \* peer[c]: consumer c
  calls,    \* the requests under way
  made,     \* made[c][op]: how many requests of a kind c made
  tokens,   \* how many tokens and secrets were drawn
  applied,  \* history: the invocations that took effect
  told      \* history: what each invocation was answered

vars == <<now, version, host, peer, calls, made, tokens, applied, told>>

NoOffer == [consumer |-> None, deadline |-> 0, status |-> "none", consent |-> None]
NoAuthority == [consumer |-> None, expires |-> 0, secret |-> 0, consent |-> None]
Plain(status) == [status |-> status, token |-> None, expires |-> 0, secret |-> 0]
NoGrant == [token |-> None, expires |-> 0, secret |-> 0, by |-> <<"none", 0>>]

-----------------------------------------------------------------------------
(* The supplier's private methods, as functions of its state. *)

\* saveResume: kept in memory and, where the host gave a saveResume, in the tab.
SaveResume(h, authority) ==
  [h EXCEPT !.authority = authority, !.saved = IF h.gen \in Saving THEN authority ELSE @]

\* finish, for every offer of a set that is not ended.
Finish(h, set) ==
  LET gone == {t \in set : h.offers[t].status \in {"pending", "accepted"}}
      g == [h EXCEPT !.offers = [t \in Tokens |-> IF t \in gone THEN [@[t] EXCEPT !.status = "ended"] ELSE @[t]]]
  IN  IF h.active \in gone THEN SaveResume([g EXCEPT !.active = None], NoAuthority) ELSE g

Expire(h) == Finish(h, {t \in Tokens : now >= h.offers[t].deadline})

\* end: every offer, and the authority even when no grant is active.
EndAll(h) == SaveResume(Finish(h, Tokens), NoAuthority)

\* remember: a new authority for the grant, where the host can save one.
Remember(h, t, secret) ==
  LET o == h.offers[t] IN
  IF h.gen \in Saving
  THEN SaveResume(h, [consumer |-> o.consumer, expires |-> o.deadline, secret |-> secret,
                      consent |-> o.consent])
  ELSE h

Permitted(h, k) ==
  /\ h.enabled /\ h.ready
  /\ h.active = k.token /\ h.offers[k.token].status = "accepted"
  /\ now < k.deadline

\* The supplier a page load constructs: it starts disabled and not ready, with
\* what the tab saved unless that has expired.
Fresh(g, saved) ==
  [gen |-> g, enabled |-> FALSE, ready |-> FALSE,
   offers |-> [t \in Tokens |-> NoOffer], active |-> None,
   authority |-> IF saved.expires > now THEN saved ELSE NoAuthority,
   saved |-> saved, resuming |-> FALSE, committing |-> FALSE]

\* What the supplier says of an offer; the resume authority goes with the
\* active grant only.
StatusOf(h, t) ==
  LET o == h.offers[t] IN
  IF o.status = "ended" THEN [Plain("ended") EXCEPT !.token = t]
  ELSE [status |-> o.status, token |-> t, expires |-> o.deadline,
        secret |-> IF t = h.active THEN h.authority.secret ELSE 0]

Init ==
  /\ now = 0 /\ version = 0
  /\ host = Fresh(1, NoAuthority)
  /\ peer = [c \in Consumers |->
       [gen |-> Joins[c], grant |-> NoGrant, ended |-> {}, unresolved |-> FALSE,
        disconnected |-> FALSE, resuming |-> FALSE, doubtful |-> FALSE,
        tried |-> {}, asked |-> {}, owed |-> {}]]
  /\ calls = {}
  /\ made = [c \in Consumers |-> [op \in Kinds |-> 0]]
  /\ tokens = 0
  /\ applied = {}
  /\ told = {}

-----------------------------------------------------------------------------
(* The operator, the application and the clock. *)

Operate(h) ==
  /\ host' = h
  /\ UNCHANGED <<now, version, peer, made, tokens, applied, told>>

Enable(on) ==
  /\ Operate([IF on THEN host ELSE EndAll(host) EXCEPT !.enabled = on])
  /\ UNCHANGED calls

\* bindAssistance: ready once the subscription is attached; close() and a
\* dropped link make it unready.
SetReady(on) ==
  /\ Operate([IF on THEN host ELSE EndAll(host) EXCEPT !.ready = on])
  /\ UNCHANGED calls

\* Faulty version of MayAccept: a new grant replaces the active one.
MayAcceptAnyway(h, t) == h.offers[t].status = "pending" /\ h.enabled /\ h.ready

MayAccept(h, t) == h.offers[t].status = "pending" /\ h.enabled /\ h.ready /\ h.active = None

Accept(t) ==
  LET h == Expire(host)
      g == [h EXCEPT !.active = t,
                     !.offers[t] = [@ EXCEPT !.status = "accepted",
                                    !.deadline = now + GrantTTL, !.consent = t]]
  IN  /\ MayAccept(h, t)
      /\ Operate(Finish(Remember(g, t, t), {u \in Tokens : g.offers[u].status = "pending"}))
      /\ UNCHANGED calls

Decline(t) ==
  /\ host.offers[t].status \in {"pending", "accepted"}
  /\ Operate(Finish(host, {t}))
  /\ UNCHANGED calls

Stop ==
  /\ Operate(EndAll(host))
  /\ UNCHANGED calls

\* pending and isPaired, which the operator's view calls.
Look ==
  /\ Operate(Expire(host))
  /\ UNCHANGED calls

\* The page is loaded anew: what the old supplier was working on is never
\* answered.
Reload ==
  /\ host.gen < MaxGen
  /\ host' = Fresh(host.gen + 1, host.saved)
  /\ calls' = {IF k.at \in {"proving", "preparing"} THEN [k EXCEPT !.at = "lost"] ELSE k :
                 k \in {k \in calls : k.waits \/ k.at = "sent"}}
  /\ UNCHANGED <<now, version, peer, made, tokens, applied, told>>

Tick ==
  /\ now < MaxNow
  /\ now' = now + 1
  /\ UNCHANGED <<version, host, peer, calls, made, tokens, applied, told>>

\* The user changes the application.
Edit ==
  /\ version < MaxVersion
  /\ version' = version + 1
  /\ UNCHANGED <<now, host, peer, calls, made, tokens, applied, told>>

-----------------------------------------------------------------------------
(* AssistanceSupplier.receive. *)

\* The request is answered; nobody hears it when the consumer gave up.
Answered(k, answer) ==
  (calls \ {k}) \cup IF k.waits THEN {[k EXCEPT !.at = "answered", !.answer = answer]} ELSE {}

Reply(h, k, answer) ==
  /\ host' = h
  /\ calls' = Answered(k, answer)
  /\ UNCHANGED <<now, version, peer, made, applied, told>>

\* A request for another generation, or one that comes too late.
TurnAway(k) ==
  /\ k.at = "sent"
  /\ k.gen # host.gen \/ now >= k.deadline
  /\ Reply(Expire(host), k, Plain(IF k.gen # host.gen THEN "refused" ELSE "expired"))
  /\ UNCHANGED tokens

InTime(k) == k.at = "sent" /\ k.gen = host.gen /\ now < k.deadline

ReceiveOffer(k) ==
  LET h == Expire(host)
      t == tokens + 1
      kept == {u \in Tokens : h.offers[u].status # "none"}
      refusal == IF ~ h.enabled \/ ~ h.ready THEN "unavailable"
                 ELSE IF h.active # None THEN "busy"
                 ELSE IF Cardinality(kept) >= Capacity THEN "unavailable" ELSE "none"
      offer == [NoOffer EXCEPT !.consumer = k.c, !.status = "pending",
                  !.deadline = IF k.deadline < now + OfferTTL THEN k.deadline ELSE now + OfferTTL]
      g == [h EXCEPT !.offers[t] = offer]
  IN  /\ k.op = "offer" /\ InTime(k)
      /\ IF refusal # "none" THEN Reply(h, k, Plain(refusal)) /\ UNCHANGED tokens
         ELSE /\ t \in Tokens
              /\ tokens' = t
              /\ Reply(g, k, StatusOf(g, t))

\* Until the proofs are computed the supplier may change; the authority the
\* request was checked against is compared by its secret.
ReceiveResume(k) ==
  LET h == Expire(host)
      may == /\ h.enabled /\ h.ready /\ h.active = None /\ ~ h.resuming
             /\ h.authority.consumer = k.c /\ h.authority.expires > now
  IN  /\ k.op = "resume" /\ InTime(k)
      /\ IF ~ may THEN Reply(h, k, Plain("refused"))
         ELSE /\ host' = [h EXCEPT !.resuming = TRUE]
              /\ calls' = (calls \ {k}) \cup {[k EXCEPT !.at = "proving", !.checked = h.authority]}
              /\ UNCHANGED <<now, version, peer, made, applied, told>>
      /\ UNCHANGED tokens

\* Faulty version of StillMay: the authority is not compared again.
StillMayAnyway(k) ==
  /\ host.enabled /\ host.ready
  /\ now < k.deadline

\* Permission after the proofs. Whether another grant became active in the
\* meantime is not asked; where the host saves, that grant changed the authority.
StillMay(k) ==
  /\ host.enabled /\ host.ready
  /\ host.authority.secret = k.checked.secret /\ k.checked.expires > now
  /\ now < k.deadline

\* Faulty version of ResumedUntil: a resumed grant starts its time anew.
ResumedAnew(authority) == now + GrantTTL
ResumedUntil(authority) == authority.expires

Proved(k) ==
  LET h == [host EXCEPT !.resuming = FALSE]
      a == k.checked
      t == tokens + 1
      offer == [consumer |-> k.c, deadline |-> ResumedUntil(a),
                status |-> "accepted", consent |-> a.consent]
      g == Remember([h EXCEPT !.active = t, !.offers[t] = offer], t, t)
  IN  /\ k.at = "proving"
      /\ IF a.secret # k.secret \/ ~ StillMay(k)
         THEN Reply(h, k, Plain("refused")) /\ UNCHANGED tokens
         ELSE /\ t \in Tokens
              /\ tokens' = t
              /\ Reply(g, k, StatusOf(g, t))

\* end, status, read and invoke name an offer of the consumer.
ReceiveOn(k) ==
  LET h == Expire(host)
      o == IF k.token = None THEN NoOffer ELSE h.offers[k.token]
      g == Finish(h, {k.token})
      known == o.status # "none" /\ o.consumer = k.c
      answer == IF ~ Permitted(h, k) THEN "refused"
                ELSE IF k.op = "read" THEN "observed"
                ELSE IF h.committing THEN "busy" ELSE "conflict"
  IN  /\ k.op \in {"end", "undo", "status", "read", "invoke"} /\ InTime(k)
      /\ UNCHANGED tokens
      /\ \/ ~ known /\ Reply(h, k, Plain("refused"))
         \/ known /\ k.op \in {"end", "undo"} /\ Reply(g, k, StatusOf(g, k.token))
         \/ /\ known /\ k.op \notin {"end", "undo"}
            /\ k.op = "status" \/ o.status = "ended"
            /\ Reply(h, k, StatusOf(h, k.token))
         \/ /\ known /\ k.op \in {"read", "invoke"} /\ o.status # "ended"
            /\ k.op = "read" \/ ~ Permitted(h, k) \/ h.committing \/ k.expect # version
            /\ Reply(h, k, Plain(answer))
         \/ /\ known /\ k.op = "invoke" /\ o.status # "ended"
            /\ Permitted(h, k) /\ ~ h.committing /\ k.expect = version
            /\ host' = [h EXCEPT !.committing = TRUE]
            /\ calls' = (calls \ {k}) \cup {[k EXCEPT !.at = "preparing"]}
            /\ UNCHANGED <<now, version, peer, made, applied, told>>

\* Faulty versions of what is asked again after prepare(): only that the
\* application did not change, only that the grant is still there.
CurrentOnly(h, k) == k.expect = version
PermittedOnly(h, k) == Permitted(h, k)
MayCommit(h, k) == Permitted(h, k) /\ k.expect = version

\* Faulty versions of CommitThrew: a commit that throws is called invalid; what
\* it threw is passed on as the status.
CommitThrewInvalid == "invalid"
CommitThrewAsIs == "thrown"
CommitThrew == "unknown"

\* prepare() returned or failed. The commit takes effect, throws before it took
\* effect, or throws after.
Prepared(k, outcome) ==
  LET h == Expire([host EXCEPT !.committing = FALSE])
      refusal == IF outcome = "rejects" THEN "invalid"
                 ELSE IF Permitted(h, k) THEN "conflict"
                 ELSE IF h.offers[k.token].status = "ended" THEN "ended" ELSE "expired"
      commits == outcome # "rejects" /\ MayCommit(h, k)
      effect == commits /\ outcome # "throws"
  IN  /\ k.at = "preparing"
      /\ host' = IF outcome = "rejects" THEN [host EXCEPT !.committing = FALSE] ELSE h
      /\ version' = IF effect THEN version + 1 ELSE version
      /\ applied' = IF effect THEN applied \cup {[id |-> <<k.c, k.n>>, on |-> version, saw |-> k.expect]} ELSE applied
      /\ calls' = Answered(k, Plain(IF ~ commits THEN refusal
                                    ELSE IF outcome = "works" THEN "applied" ELSE CommitThrew))
      /\ UNCHANGED <<now, peer, made, tokens, told>>

-----------------------------------------------------------------------------
(* AssistanceConsumer. *)

Request(c, op, gen, token, expect, from) ==
  [op |-> op, n |-> made[c][op] + 1, c |-> c, gen |-> gen, token |-> token,
   deadline |-> now + (IF op = "offer" THEN OfferTTL ELSE RequestTTL), expect |-> expect,
   secret |-> from.secret, from |-> from, checked |-> NoAuthority,
   at |-> "sent", waits |-> TRUE, answer |-> Plain("none")]

\* Consumer c moves to p and sends a request.
Send(c, p, k) ==
  /\ made[c][k.op] < MaxCalls[c][k.op]
  /\ made' = [made EXCEPT ![c][k.op] = @ + 1]
  /\ peer' = [peer EXCEPT ![c] = p]
  /\ calls' = calls \cup {k}
  /\ UNCHANGED <<now, version, host, tokens, applied, told>>

Offer(c) ==
  /\ ~ peer[c].disconnected /\ peer[c].gen <= host.gen
  /\ Send(c, peer[c], Request(c, "offer", peer[c].gen, peer[c].grant.token, 0, NoGrant))

Status(c, t) ==
  /\ t \in peer[c].asked \ peer[c].ended /\ ~ peer[c].disconnected
  /\ Send(c, peer[c], Request(c, "status", peer[c].gen, t, 0, NoGrant))

Read(c) ==
  LET g == peer[c].grant IN
  /\ g # NoGrant
  /\ Send(c, peer[c], Request(c, "read", peer[c].gen, g.token, 0, NoGrant))

MayInvoke(p) == p.grant # NoGrant /\ ~ p.unresolved

\* The caller passes the sequence and revision of an observation it made.
Invoke(c, expect) ==
  LET p == peer[c] IN
  /\ MayInvoke(p)
  /\ Send(c, [p EXCEPT !.unresolved = TRUE, !.owed = @ \cup {made[c]["invoke"] + 1}],
          Request(c, "invoke", p.gen, p.grant.token, expect, NoGrant))

Abandon(c) ==
  /\ peer' = [peer EXCEPT ![c].unresolved = FALSE, ![c].owed = {}]
  /\ UNCHANGED <<now, version, host, calls, made, tokens, applied, told>>

Disconnect(c) ==
  LET p == peer[c]
      gone == IF p.grant = NoGrant THEN {} ELSE {p.grant.token}
  IN  /\ peer' = [peer EXCEPT ![c] = [p EXCEPT !.disconnected = TRUE, !.ended = @ \cup gone,
                                     !.grant = NoGrant, !.unresolved = FALSE, !.owed = {}]]
      /\ UNCHANGED <<now, version, host, calls, made, tokens, applied, told>>

\* Local revocation is immediate, whatever becomes of the request.
End(c, t) ==
  LET p == peer[c] IN
  /\ t \in (p.asked \cup {p.grant.token}) \ (p.ended \cup {None})
  /\ Send(c, [p EXCEPT !.ended = @ \cup {t}, !.grant = NoGrant, !.unresolved = FALSE, !.owed = {}],
          Request(c, "end", p.gen, t, 0, NoGrant))

\* A candidate generation is asked once to resume the grant.
Resume(c, gen) ==
  LET p == peer[c] IN
  /\ p.grant.secret # 0 /\ p.grant.expires > now
  /\ ~ p.doubtful /\ ~ p.disconnected /\ ~ p.resuming
  /\ gen \notin p.tried \cup {p.gen}
  /\ Send(c, [p EXCEPT !.tried = @ \cup {gen}, !.resuming = TRUE],
          Request(c, "resume", gen, None, 0, p.grant))

\* adopt: the answer k becomes the grant, unless its token was ended here.
Adopt(p, k) ==
  LET a == k.answer IN
  IF a.status = "accepted" /\ a.token \notin p.ended
  THEN [p EXCEPT !.grant = [token |-> a.token, expires |-> a.expires,
                            secret |-> a.secret, by |-> <<k.op, k.n>>]]
  ELSE p

\* What request() returns for an answer, or for "unknown" when none came.
Outcome(p, k, status) ==
  IF (k.token # None /\ k.token \in p.ended) \/ p.disconnected THEN "gone" ELSE status

\* request() goes on after its await, and the method that called it with it.
Concluded(p, k, status) ==
  LET out == Outcome(p, k, status)
      q == IF out = "ended" /\ k.token # None
           THEN [p EXCEPT !.ended = @ \cup {k.token}, !.grant = NoGrant] ELSE p
  IN  CASE k.op = "offer" /\ out = "pending" -> [q EXCEPT !.asked = @ \cup {k.answer.token}]
        [] k.op = "status" /\ out = "accepted" -> Adopt(q, k)
        [] k.op = "invoke" /\ out # "unknown" ->
             [q EXCEPT !.unresolved = FALSE, !.owed = @ \ {k.n}]
        [] OTHER -> q

Conclude(k, status) ==
  /\ k.op \in {"offer", "status", "read", "invoke"}
  /\ peer' = [peer EXCEPT ![k.c] = Concluded(@, k, status)]
  /\ told' = IF k.op = "invoke" THEN told \cup {[id |-> <<k.c, k.n>>, status |-> Outcome(peer[k.c], k, status)]} ELSE told
  /\ UNCHANGED made

\* Faulty version of StillWanted: the grant is adopted although the consumer
\* ended or replaced the one it resumes while the request was under way.
StillWantedAnyway(p, k) == TRUE
StillWanted(p, k) == ~ p.disconnected /\ p.grant = k.from

\* resume() goes on: the grant is taken over in the new generation, or, when it
\* is no longer wanted, ended there. `rest` is what remains of the requests.
ConcludeResume(k, rest) ==
  LET p == peer[k.c]
      a == k.answer
      good == a.status = "accepted" /\ a.expires = k.from.expires
  IN  /\ k.op = "resume"
      /\ UNCHANGED told
      /\ IF good /\ ~ StillWanted(p, k)
         THEN /\ calls' = rest \cup {Request(k.c, "undo", k.gen, a.token, 0, NoGrant)}
              /\ made' = [made EXCEPT ![k.c]["undo"] = @ + 1]
              /\ UNCHANGED peer
         ELSE /\ calls' = rest
              /\ peer' = [peer EXCEPT ![k.c] =
                   IF good THEN Adopt([p EXCEPT !.gen = k.gen, !.resuming = FALSE], k)
                   ELSE [p EXCEPT !.resuming = FALSE]]
              /\ UNCHANGED made

\* An end only tells its caller whether the supplier confirmed it; the end of a
\* grant resumed too late finishes resume().
ConcludeEnd(k) ==
  /\ k.op \in {"end", "undo"}
  /\ peer' = IF k.op = "undo" THEN [peer EXCEPT ![k.c].resuming = FALSE] ELSE peer
  /\ UNCHANGED <<made, told>>

Return(k) ==
  /\ k.at = "answered"
  /\ \/ Conclude(k, k.answer.status) /\ calls' = calls \ {k}
     \/ ConcludeEnd(k) /\ calls' = calls \ {k}
     \/ ConcludeResume(k, calls \ {k})
  /\ UNCHANGED <<now, version, host, tokens, applied>>

\* callAssistance: the wait is over or the transport failed. The request may
\* still reach the supplier, or be at work there.
GiveUp(k) ==
  /\ k.waits
  /\ calls' = (calls \ {k}) \cup IF k.at \in {"answered", "lost"} THEN {} ELSE {[k EXCEPT !.waits = FALSE]}
  /\ \/ Conclude(k, "unknown")
     \/ ConcludeEnd(k)
     \/ /\ k.op = "resume"
        /\ peer' = [peer EXCEPT ![k.c].doubtful = TRUE, ![k.c].resuming = FALSE]
        /\ UNCHANGED <<made, told>>
  /\ UNCHANGED <<now, version, host, tokens, applied>>

Next ==
  \/ \E on \in BOOLEAN : Enable(on) \/ SetReady(on)
  \/ \E t \in Tokens : Accept(t) \/ Decline(t)
  \/ Stop \/ Look \/ Reload \/ Tick \/ Edit
  \/ \E k \in calls :
       \/ TurnAway(k) \/ ReceiveOffer(k) \/ ReceiveResume(k) \/ Proved(k) \/ ReceiveOn(k)
       \/ \E outcome \in {"works", "rejects", "throws", "throws late"} : Prepared(k, outcome)
       \/ Return(k) \/ GiveUp(k)
  \/ \E c \in Consumers :
       \/ Offer(c) \/ Read(c) \/ Abandon(c) \/ Disconnect(c)
       \/ \E t \in Tokens : Status(c, t) \/ End(c, t)
       \/ \E expect \in 0 .. version : Invoke(c, expect)
       \/ \E gen \in 1 .. host.gen : Resume(c, gen)

Spec == Init /\ [][Next]_vars

-----------------------------------------------------------------------------
Denials == {"refused", "busy", "conflict", "expired", "invalid", "ended"}

OfferType == [consumer : Consumers \cup {None}, deadline : Nat,
              status : {"none", "pending", "accepted", "ended"}, consent : Tokens \cup {None}]
AuthorityType == [consumer : Consumers \cup {None}, expires : Nat, secret : Tokens \cup {None},
                  consent : Tokens \cup {None}]

(* The type of every variable. *)
TypeOK ==
  /\ now \in Nat /\ version \in Nat /\ tokens \in Tokens \cup {0}
  /\ host \in [gen : Nat, enabled : BOOLEAN, ready : BOOLEAN, offers : [Tokens -> OfferType],
               active : Tokens \cup {None}, authority : AuthorityType, saved : AuthorityType,
               resuming : BOOLEAN, committing : BOOLEAN]
  /\ made \in [Consumers -> [Kinds -> Nat]]
  /\ DOMAIN peer = Consumers
  /\ \A k \in calls :
       /\ k.c \in Consumers /\ k.op \in Kinds
       /\ k.at \in {"sent", "proving", "preparing", "answered", "lost"}
       /\ k.answer.status \in Denials \cup {"none", "pending", "accepted", "observed", "applied", "unavailable", "unknown"}

(* One consumer at a time: the active offer is the only accepted one, whatever  *)
(* is accepted while a resumption awaits its proofs.                            *)
OneGrant ==
  \A t \in Tokens : host.offers[t].status = "accepted" <=> host.active = t

(* The consent a supplier acts under or could still resume. *)
Consent ==
  IF host.active # None THEN host.offers[host.active].consent
  ELSE IF host.authority.expires > now THEN host.authority.consent ELSE None

ConsentEnd ==
  IF host.active # None THEN host.offers[host.active].deadline ELSE host.authority.expires

(* resume "without extending expiry" (assistanceResume.test.ts 4): however often *)
(* and into whatever generation a consent is resumed, it ends when the grant the *)
(* operator accepted would have ended.                                           *)
GrantBounded ==
  [][Consent # None /\ Consent' = Consent => ConsentEnd' = ConsentEnd]_vars

(* Only the operator gives consent: once a consent is withdrawn, by whichever   *)
(* side, by a stop or by time, no resumption in progress brings it back; a       *)
(* consent arises from the acceptance of an offer that was waiting for it.       *)
OnlyAcceptGives ==
  [][Consent' \notin {Consent, None} => host.offers[Consent'].status = "pending"]_vars

(* An action takes effect only under the consent in force at that moment, for   *)
(* the consumer it was given to, and never after the grant's end: revocation    *)
(* between prepare and commit fences it ("fences a prepared mutation revoked     *)
(* before commit").                                                             *)
CommitsUnderConsent ==
  [][version' # version /\ applied' # applied =>
       host.active # None /\ host.enabled /\ host.ready /\ now < host.offers[host.active].deadline]_vars

(* No lost update: an action changes the very state its caller had observed,    *)
(* although the user may edit while it is prepared.                             *)
NoLostUpdate == \A a \in applied : a.on = a.saw

(* A consumer that is told its action was applied is right, and one that is     *)
(* told the supplier denied it may do it again: it was not and never will be     *)
(* applied ("A throwing application commit may have taken effect. Never label    *)
(* it rejected").                                                               *)
ToldTruly ==
  \A m \in told :
    /\ m.status = "applied" => \E a \in applied : a.id = m.id
    /\ m.status \in Denials => \A a \in applied : a.id # m.id

(* A consumer that ended a grant or disconnected never holds it again, however  *)
(* late an acceptance or a resumption is answered.                              *)
NeverRevived ==
  \A c \in Consumers :
    /\ peer[c].disconnected => peer[c].grant = NoGrant
    /\ peer[c].grant.token \notin peer[c].ended

(* AssistanceFirstMilestone.md 40: "One unresolved mutation blocks further       *)
(* mutations until explicit manual abandonment/end."                            *)
UnresolvedBlocks ==
  \A c \in Consumers : peer[c].owed # {} => peer[c].unresolved
============================================================================
