------------------------------ MODULE Gateway ------------------------------
(***************************************************************************)
(* A browser in front of the guarded service: identity.go, ratelimit.go,   *)
(* authorizeRequest in onionguard.go, and the net/http and Fiber           *)
(* middleware.  The tabs of one browser share a cookie jar; every tab has  *)
(* at most one request under way, and the requests of different tabs       *)
(* interleave at every store call.  The sessions are those of this browser *)
(* alone; the rest of the world is the shared first-contact bucket, which  *)
(* a flood empties, and a budget of events: failing store calls, lapsing   *)
(* records, revocations, lost responses, wrong answers, stray clicks.      *)
(* What the session and challenge services do under the session's lock is  *)
(* one step here; module Admission looks inside.                           *)
(***************************************************************************)
EXTENDS Naturals, FiniteSets

CONSTANTS
  Tab,          \* the tabs of the browser
  Html,         \* those that ask for text/html; the others are API clients
  SID, NoSID,   \* session ids
  MaxAttempts,  \* cfg.Captcha.MaxAttempts
  Configs       \* the deployments looked at, each with a bound on tabs and events

ASSUME GatewayAssumption ==
  /\ NoSID \notin SID /\ Html \subseteq Tab
  /\ MaxAttempts \in Nat \ {0}
  /\ \A c \in Configs : /\ {c.waitRoom, c.captcha, c.fiber, c.failClosed} \subseteq BOOLEAN
                        /\ c.tabs \subseteq Tab /\ c.events \in Nat

VARIABLES
  config,   \* the deployment: the part of Config that matters, tabs open, events to come
  sess,     \* sess[s]: the record stored under s, with its challenge
  jar,      \* the session cookie of the browser
  tab,      \* tab[t]: the page tab t shows, or the request it waits for
  flooded,  \* is the first-contact bucket empty?
  budget,   \* events that may still happen
  seen      \* history: what was true of a request's session while it ran

vars == <<config, sess, jar, tab, flooded, budget, seen>>
server == <<config, flooded>>

-----------------------------------------------------------------------------
(* Sessions, and what a tab remembers.                                     *)

State == {"NONE", "WAITING", "CHALLENGE_REQUIRED", "ADMITTED", "REVOKED"}

Record == [state : State,
           over : BOOLEAN,                 \* WaitTime has passed since FirstSeen
           dead : BOOLEAN,                 \* IsExpired, though still readable
           live : BOOLEAN,                 \* its challenge can be answered
           attempts : 0 .. MaxAttempts - 1] \* wrong answers to that challenge

NoRecord == [state |-> "NONE", over |-> FALSE, dead |-> FALSE, live |-> FALSE, attempts |-> 0]

InState(s) == [NoRecord EXCEPT !.state = s]

Kind == {"IdentityAuthenticated", "IdentityAPIToken", "IdentityAnonymous", "IdentityAnonymousNew"}

Page == {"blank", "wait", "challenge", "redirect", "content"}

Stage == {"page", "resolve", "limit", "evaluate", "issue",
          "endpoint", "read", "get", "validate", "reissue", "persist", "reply"}

Key == {"none", "anon_new:global", "anon_new:id", "anon:id", "auth:id", "token:id"}

View == [at : Stage, shows : Page,
         op : {"visit", "get", "post"},
         cred : {"none", "principal", "token", "bad"},
         id : SID \cup {NoSID},            \* the session the request, or the challenge shown, is of
         kind : Kind, snap : Record,       \* what the resolver made of it, the record it read
         right : BOOLEAN,                  \* the answer fits the challenge
         key : Key,                        \* the bucket charged
         cookie : {"keep", "set", "clear"}]

Blank == [at |-> "page", shows |-> "blank", op |-> "visit", cred |-> "none", id |-> NoSID,
          kind |-> "IdentityAnonymousNew", snap |-> NoRecord, right |-> FALSE, key |-> "none",
          cookie |-> "keep"]

GatewayTypeOK ==
  /\ config \in Configs
  /\ sess \in [SID -> Record]
  /\ jar \in SID \cup {NoSID}
  /\ tab \in [Tab -> View]
  /\ flooded \in BOOLEAN
  /\ budget \in 0 .. config.events
  /\ seen \in [Tab -> [admitted : BOOLEAN, missing : BOOLEAN]]

Init ==
  /\ config \in Configs
  /\ sess = [s \in SID |-> NoRecord]
  /\ jar = NoSID
  /\ tab = [t \in Tab |-> Blank]
  /\ flooded = FALSE
  /\ budget = config.events
  /\ seen = [t \in Tab |-> [admitted |-> FALSE, missing |-> FALSE]]

Spend == budget > 0 /\ budget' = budget - 1

\* The request of t moves on; nothing else changes for the other tabs.
Go(t, v) == tab' = [tab EXCEPT ![t] = v]

\* As Go, when the challenge of s is gone: the pages that show it are stale.
GoWithout(t, v, s) ==
  tab' = [u \in Tab |-> IF u = t THEN v
                        ELSE IF tab[u].id = s THEN [tab[u] EXCEPT !.right = FALSE]
                        ELSE tab[u]]

Reply(v, page, cookie) == [v EXCEPT !.at = "reply", !.shows = page, !.cookie = cookie,
                                    !.kind = "IdentityAnonymousNew", !.snap = NoRecord]

\* writeMappedError: whatever the status, no cookie travels with an error.
writeMappedError(v) == Reply(v, "blank", "keep")

\* A store call of the request of t fails: 503.
Fails(t) == Spend /\ Go(t, writeMappedError(tab[t])) /\ UNCHANGED <<sess, jar, server>>

-----------------------------------------------------------------------------
(* Identity and rate limit.                                                *)

Admitted(r) == r.state = "ADMITTED" /\ ~r.dead

\* Mutant: a token that does not validate is ignored, and the cookie is tried.
MutRefused(v) == FALSE

\* A token that is present and does not validate is an error: there is no second try.
Refused(v) == v.cred = "bad"

\* The priorities of the resolver: principal, token, session of the cookie, newcomer.
Identity(v) ==
  LET r == sess[v.id]
      kind == CASE v.cred = "principal" -> "IdentityAuthenticated"
                [] v.cred = "token" -> "IdentityAPIToken"
                [] OTHER -> "IdentityAnonymousNew"
  IN  IF kind # "IdentityAnonymousNew" \/ v.id = NoSID THEN [v EXCEPT !.kind = kind, !.id = NoSID]
      ELSE IF r.state = "NONE" THEN [v EXCEPT !.id = NoSID]
      ELSE [v EXCEPT !.snap = r,
                     !.kind = IF Admitted(r) THEN "IdentityAnonymous" ELSE "IdentityAnonymousNew"]

ResolveWithSession(t) ==
  /\ tab[t].at = "resolve"
  /\ \/ /\ Go(t, IF Refused(tab[t]) THEN writeMappedError(tab[t])
                 ELSE [Identity(tab[t]) EXCEPT !.at = "limit"])
        /\ UNCHANGED <<sess, jar, server, budget>>
     \/ tab[t].cred = "none" /\ tab[t].id # NoSID /\ Fails(t)

\* Mutant: the visitors that are not admitted yet share one bucket.
MutRateLimitKey(v) ==
  CASE v.kind = "IdentityAuthenticated" -> "auth:id"
    [] v.kind = "IdentityAPIToken" -> "token:id"
    [] v.kind = "IdentityAnonymous" -> "anon:id"
    [] OTHER -> "anon_new:global"

RateLimitKey(v) ==
  CASE v.kind = "IdentityAuthenticated" -> "auth:id"
    [] v.kind = "IdentityAPIToken" -> "token:id"
    [] v.kind = "IdentityAnonymous" -> "anon:id"
    [] v.kind = "IdentityAnonymousNew" /\ v.id # NoSID -> "anon_new:id"
    [] OTHER -> "anon_new:global"

\* The sessions the browser still knows of.
Known == {jar} \cup {tab[t].id : t \in Tab}

\* NewSession draws an id nobody has.
Unused == {s \in SID \ Known : sess[s].state = "NONE"}

\* The limiter lets the request through: a principal or a token is done, a newcomer
\* gets a candidate session.
Pass(t) ==
  LET v == [tab[t] EXCEPT !.key = RateLimitKey(tab[t])]
      exempt == v.kind \in {"IdentityAuthenticated", "IdentityAPIToken"}
  IN  \/ exempt /\ Go(t, Reply(v, "content", "keep"))
      \/ /\ ~exempt /\ v.id = NoSID
         /\ Unused # {}
         /\ Go(t, [v EXCEPT !.at = "evaluate", !.id = CHOOSE s \in Unused : TRUE])
      \/ ~exempt /\ v.id # NoSID /\ Go(t, [v EXCEPT !.at = "evaluate"])

Allow(t) ==
  /\ tab[t].at = "limit"
  /\ RateLimitKey(tab[t]) = "anon_new:global" => ~flooded
  /\ Pass(t)
  /\ UNCHANGED <<sess, jar, server, budget>>

\* The bucket is empty: the shared one in a flood, an own one after too much own traffic.
RateLimited(t) ==
  /\ tab[t].at = "limit"
  /\ IF RateLimitKey(tab[t]) = "anon_new:global" THEN flooded /\ UNCHANGED budget ELSE Spend
  /\ Go(t, writeMappedError([tab[t] EXCEPT !.key = RateLimitKey(tab[t])]))
  /\ UNCHANGED <<sess, jar, server>>

\* The store fails under the limiter, which is closed or open to that.
LimiterFails(t) ==
  /\ tab[t].at = "limit"
  /\ IF config.failClosed THEN Fails(t) ELSE Spend /\ Pass(t) /\ UNCHANGED <<sess, jar, server>>

-----------------------------------------------------------------------------
(* Admission, and the challenge that goes with it.                         *)

\* Mutant: the cookie of a session that is over is renewed.
MutSessionCookie(r) == "set"

SessionCookie(r) == IF r.state = "REVOKED" \/ r.dead THEN "clear" ELSE "set"

\* What the middleware answers once evaluate has seen the record r.
Verdict(v, r) ==
  IF r.state = "NONE" THEN writeMappedError(v)
  ELSE IF r.state = "REVOKED" \/ r.dead THEN Reply(v, "blank", SessionCookie(r))
  ELSE CASE r.state = "ADMITTED" -> Reply(v, "content", SessionCookie(r))
         [] r.state = "CHALLENGE_REQUIRED" -> [v EXCEPT !.at = "issue", !.snap = NoRecord]
         [] r.state = "WAITING" -> Reply(v, "wait", SessionCookie(r))

WaitOver(v) == v.snap.state = "WAITING" /\ ~v.snap.dead /\ (v.snap.over \/ sess[v.id].over)

\* EvaluateFresh on the snapshot, which may have expired since it was read.
evaluate(t) ==
  LET v == tab[t]
  IN  /\ v.at = "evaluate"
      /\ v.snap.state # "NONE"
      /\ \/ ~WaitOver(v) /\ Go(t, Verdict(v, v.snap)) /\ UNCHANGED budget
         \/ Spend /\ ~v.snap.dead /\ Go(t, Verdict(v, [v.snap EXCEPT !.dead = TRUE]))
      /\ UNCHANGED <<sess, jar, server>>

\* The wait is over in the snapshot: read again under the lock, and move on.
handleWaitElapsed(t) ==
  LET v == tab[t]
      r == sess[v.id]
      next == [r EXCEPT !.state = IF config.captcha THEN "CHALLENGE_REQUIRED" ELSE "ADMITTED"]
      done == r.state = "WAITING" /\ r.over /\ ~r.dead
  IN  /\ v.at = "evaluate"
      /\ WaitOver(v)
      /\ \/ /\ sess' = IF done THEN [sess EXCEPT ![v.id] = next] ELSE sess
            /\ Go(t, Verdict(v, IF done THEN next ELSE r))
            /\ UNCHANGED <<jar, server, budget>>
         \/ Fails(t)

\* A newcomer: the first state the deployment asks for.  No room, or no store: an error.
handleNewClient(t) ==
  LET v == tab[t]
      first == InState(IF config.waitRoom THEN "WAITING"
                       ELSE IF config.captcha THEN "CHALLENGE_REQUIRED" ELSE "ADMITTED")
  IN  /\ v.at = "evaluate"
      /\ v.snap.state = "NONE"
      /\ \/ /\ sess' = [sess EXCEPT ![v.id] = first]
            /\ Go(t, Verdict(v, first))
            /\ UNCHANGED <<jar, server, budget>>
         \/ Fails(t)

\* Only authorizeRequest answers a challenge together with the cookie.
WithCookie(v) == IF v.at = "issue" THEN "set" ELSE "keep"

\* The live challenge again, or a new one.
Issue(t) ==
  LET v == tab[t]
      r == sess[v.id]
      shown == [Reply(v, "challenge", WithCookie(v)) EXCEPT !.right = TRUE]
  IN  /\ v.at \in {"issue", "get", "reissue"}
      /\ \/ /\ r.state = "CHALLENGE_REQUIRED" /\ ~r.dead /\ ~r.live
            /\ sess' = [sess EXCEPT ![v.id].live = TRUE, ![v.id].attempts = 0]
            /\ GoWithout(t, shown, v.id)
            /\ UNCHANGED <<jar, server, budget>>
         \/ /\ r.state = "CHALLENGE_REQUIRED" /\ ~r.dead /\ r.live
            /\ Go(t, shown)
            /\ UNCHANGED <<sess, jar, server, budget>>
         \/ /\ r.state # "CHALLENGE_REQUIRED" \/ r.dead
            /\ Go(t, writeMappedError(v))
            /\ UNCHANGED <<sess, jar, server, budget>>
         \/ Fails(t)

-----------------------------------------------------------------------------
(* The challenge endpoint.                                                 *)

\* Its own bucket, per session and method; nothing is read before.
ChallengeLimit(t) ==
  LET v == tab[t]
  IN  /\ v.at = "endpoint"
      /\ IF v.id = NoSID
           THEN /\ Go(t, writeMappedError(v))
                /\ UNCHANGED <<sess, jar, server, budget>>
           ELSE \/ /\ Go(t, [v EXCEPT !.at = "read"])
                   /\ UNCHANGED budget \/ (~config.failClosed /\ Spend)
                   /\ UNCHANGED <<sess, jar, server>>
                \/ Fails(t)

\* A session that is admitted already is sent on; a store error here is not looked at.
AlreadyAdmitted(t) ==
  LET v == tab[t]
      on == [v EXCEPT !.at = IF v.op = "get" THEN "get" ELSE "validate"]
  IN  /\ v.at = "read"
      /\ \/ /\ Go(t, IF Admitted(sess[v.id]) THEN Reply(v, "redirect", "keep") ELSE on)
            /\ UNCHANGED budget
         \/ Admitted(sess[v.id]) /\ Go(t, on) /\ Spend
      /\ UNCHANGED <<sess, jar, server>>

\* A page for a person shows the next challenge at once, an API client gets the error.
Again(t, v) == IF t \in Html THEN [v EXCEPT !.at = "reissue", !.right = FALSE]
               ELSE writeMappedError(v)

\* Fiber sends an admitted client on, and leaves the cookie to the next request.
FiberAccepted(v) == Reply([v EXCEPT !.right = FALSE], "redirect", "keep")

\* net/http does the same for an API client, but renews the cookie of a person first.
Accepted(t, v) == IF t \in Html THEN [v EXCEPT !.at = "persist", !.right = FALSE]
                  ELSE Reply([v EXCEPT !.right = FALSE], "redirect", "keep")

\* Validate with the right answer.  The deadline of the session is not looked at.
Solve(t) ==
  LET v == tab[t]
  IN  /\ v.right
      /\ sess' = [sess EXCEPT ![v.id] = InState("ADMITTED")]
      /\ GoWithout(t, IF config.fiber THEN FiberAccepted(v) ELSE Accepted(t, v), v.id)

\* Mutant: one guess too many.
MutLastTry(r) == r.attempts >= MaxAttempts

LastTry(r) == r.attempts + 1 >= MaxAttempts

\* Validate with a wrong answer, and attempts left.
Miss(t) ==
  LET v == tab[t]
  IN  /\ ~v.right
      /\ ~LastTry(sess[v.id])
      /\ sess' = [sess EXCEPT ![v.id].attempts = @ + 1]
      /\ Go(t, Again(t, v))

\* Validate with the last wrong answer: back to the wait room, where there is one.
Exhaust(t) ==
  LET v == tab[t]
      r == sess[v.id]
  IN  /\ ~v.right
      /\ LastTry(r)
      /\ sess' = [sess EXCEPT ![v.id] = IF config.waitRoom THEN InState("WAITING")
                                        ELSE [r EXCEPT !.live = FALSE, !.attempts = 0]]
      /\ GoWithout(t, IF t \in Html /\ config.waitRoom THEN Reply(v, "wait", "keep")
                      ELSE writeMappedError(v), v.id)

Validate(t) ==
  LET v == tab[t]
      r == sess[v.id]
  IN  /\ v.at = "validate"
      /\ \/ /\ r.state = "CHALLENGE_REQUIRED" /\ r.live
            /\ Solve(t) \/ Miss(t) \/ Exhaust(t)
            /\ UNCHANGED <<jar, server, budget>>
         \/ /\ ~(r.state = "CHALLENGE_REQUIRED" /\ r.live)
            /\ Go(t, IF r.state = "CHALLENGE_REQUIRED" THEN Again(t, v) ELSE writeMappedError(v))
            /\ UNCHANGED <<sess, jar, server, budget>>
         \/ Fails(t)

\* The save of the admitted session fails, and so does putting the challenge back.
ChallengeLost(t) ==
  LET v == tab[t]
  IN  /\ v.at = "validate"
      /\ v.right
      /\ sess[v.id].state = "CHALLENGE_REQUIRED" /\ sess[v.id].live
      /\ Spend
      /\ sess' = [sess EXCEPT ![v.id].live = FALSE]
      /\ GoWithout(t, writeMappedError(v), v.id)
      /\ UNCHANGED <<jar, server>>

\* net/http, for a person: the session is read once more for its cookie.
PersistCookie(t) ==
  LET v == tab[t]
      r == sess[v.id]
  IN  /\ v.at = "persist"
      /\ \/ /\ Go(t, Reply(v, "redirect", IF r.state = "NONE" THEN "keep" ELSE SessionCookie(r)))
            /\ UNCHANGED budget
         \/ Spend /\ Go(t, Reply(v, "redirect", "keep"))
      /\ UNCHANGED <<sess, jar, server>>

-----------------------------------------------------------------------------
(* The browser.                                                            *)

\* The cookie of the answer replaces whatever the jar holds by now.
Deliver(t) ==
  LET v == tab[t]
  IN  /\ v.at = "reply"
      /\ jar' = CASE v.cookie = "set" -> v.id [] v.cookie = "clear" -> NoSID [] OTHER -> jar
      /\ Go(t, IF v.shows = "challenge" THEN [Blank EXCEPT !.shows = v.shows, !.id = v.id, !.right = v.right]
               ELSE [Blank EXCEPT !.shows = v.shows])
      /\ UNCHANGED <<sess, server, budget>>

Lose(t) ==
  /\ tab[t].at = "reply"
  /\ Spend
  /\ Go(t, Blank)
  /\ UNCHANGED <<sess, jar, server>>

Visit(cred) == [Blank EXCEPT !.at = "resolve", !.id = jar, !.cred = cred]

Post(right) == [Blank EXCEPT !.at = "endpoint", !.id = jar, !.op = "post", !.right = right]

\* What a patient client does: it tries again, follows redirects and answers rightly
\* the challenge it sees, which may be that of a session its jar no longer holds.
Proceed(t) ==
  LET v == tab[t]
  IN  /\ v.at = "page"
      /\ t \in config.tabs
      /\ v.shows # "content"
      /\ Go(t, IF v.shows = "challenge" THEN Post(v.right /\ v.id = jar) ELSE Visit("none"))
      /\ UNCHANGED <<sess, jar, server, budget>>

\* What it may do besides: mistype, reload, use a credential, open the challenge again.
Stray(t) ==
  LET v == tab[t]
  IN  /\ v.at = "page"
      /\ t \in config.tabs
      /\ Spend
      /\ \/ v.shows = "challenge" /\ Go(t, Post(FALSE))
         \/ v.shows \in {"challenge", "content"} /\ Go(t, Visit("none"))
         \/ \E cred \in {"principal", "token", "bad"} : Go(t, Visit(cred))
         \/ Go(t, [Blank EXCEPT !.at = "endpoint", !.id = jar, !.op = "get"])
      /\ UNCHANGED <<sess, jar, server>>

-----------------------------------------------------------------------------
(* The rest of the world.                                                  *)

\* Records change under a session: revoked, past its deadline, lapsed, challenge lapsed.
Event(s) ==
  LET r == sess[s]
  IN  /\ s \in Known
      /\ r.state # "NONE"
      /\ Spend
      /\ \/ r.state # "REVOKED" /\ sess' = [sess EXCEPT ![s] = InState("REVOKED")]
         \/ ~r.dead /\ sess' = [sess EXCEPT ![s].dead = TRUE]
         \/ sess' = [sess EXCEPT ![s] = NoRecord]
         \/ r.live /\ sess' = [sess EXCEPT ![s].live = FALSE]
      /\ tab' = [t \in Tab |-> IF tab[t].id = s /\ ~sess'[s].live
                                 THEN [tab[t] EXCEPT !.right = FALSE] ELSE tab[t]]
      /\ UNCHANGED <<jar, server>>

WaitElapses(s) ==
  /\ sess[s].state = "WAITING"
  /\ ~sess[s].over
  /\ sess' = [sess EXCEPT ![s].over = TRUE]
  /\ UNCHANGED <<jar, tab, server, budget>>

\* The record of a session nobody uses reaches its time to live.
Forget(s) ==
  /\ sess[s].state # "NONE"
  /\ s \notin Known
  /\ sess' = [sess EXCEPT ![s] = NoRecord]
  /\ UNCHANGED <<jar, tab, server, budget>>

Flood ==
  /\ ~flooded
  /\ Spend
  /\ flooded' = TRUE
  /\ UNCHANGED <<config, sess, jar, tab>>

Subside ==
  /\ flooded
  /\ flooded' = FALSE
  /\ UNCHANGED <<config, sess, jar, tab, budget>>

-----------------------------------------------------------------------------

authorizeRequest(t) ==
  \/ ResolveWithSession(t)
  \/ Allow(t) \/ RateLimited(t) \/ LimiterFails(t)
  \/ evaluate(t) \/ handleWaitElapsed(t) \/ handleNewClient(t)
  \/ Issue(t)

handleChallenge(t) ==
  ChallengeLimit(t) \/ AlreadyAdmitted(t) \/ Validate(t) \/ ChallengeLost(t) \/ PersistCookie(t)

Serve(t) == authorizeRequest(t) \/ handleChallenge(t)

\* Was the session of the request admitted, was it missing, at some moment of the request?
Observe ==
  seen' = [t \in Tab |->
    LET s == tab'[t].id
        idle == tab'[t].at = "page"
        old == tab[t].at # "page"
    IN  [admitted |-> ~idle /\ ((old /\ seen[t].admitted) \/ (s # NoSID /\ Admitted(sess'[s]))),
         missing |-> ~idle /\ ((old /\ seen[t].missing) \/ s = NoSID \/ sess'[s].state = "NONE")]]

Next ==
  /\ \/ \E t \in Tab : Serve(t) \/ Deliver(t) \/ Lose(t) \/ Proceed(t) \/ Stray(t)
     \/ \E s \in SID : Event(s) \/ WaitElapses(s) \/ Forget(s)
     \/ Flood \/ Subside
  /\ Observe

\* The server works, the network delivers, the client goes on; waits end, records lapse.
Fairness ==
  /\ \A t \in Tab : WF_vars((Serve(t) \/ Deliver(t) \/ Proceed(t)) /\ Observe)
  /\ \A s \in SID : WF_vars(WaitElapses(s) /\ Observe) /\ WF_vars(Forget(s) /\ Observe)

Spec == Init /\ [][Next]_vars /\ Fairness

-----------------------------------------------------------------------------
(* Properties.                                                             *)

\* The protected handler runs for a principal, for a token that validated, or for a
\* session that was admitted and not expired at some moment of that very request;
\* a bad token is not rescued by a good cookie (authorizeRequest, middleware).
OnlyTheAdmitted ==
  \A t \in Tab : tab[t].at = "reply" /\ tab[t].shows = "content" =>
    \/ tab[t].cred \in {"principal", "token"}
    \/ tab[t].cred = "none" /\ seen[t].admitted

\* A request whose session stays in the store while it runs neither draws on the bucket
\* all newcomers share nor is given another session, so that no flood of newcomers can
\* turn it away (README: "completely unaffected by floods on ScopeFirstContact").
Isolated ==
  \A t \in Tab : tab[t].key = "anon_new:global" => seen[t].missing

\* Whatever two tabs, one jar and answers out of order do to each other, a client that
\* goes on reaches the handler once the flood of newcomers is over.
Served == (<>[]~flooded) => <>[](\A t \in config.tabs : tab[t].at = "page" /\ tab[t].shows = "content")
=============================================================================
