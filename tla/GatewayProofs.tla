--------------------------- MODULE GatewayProofs ---------------------------
(***************************************************************************)
(* Safety of the gateway for every number of tabs and sessions, every      *)
(* deployment and any budget of events: no request reaches the protected   *)
(* handler without a right to, and none whose session stays in the store   *)
(* draws on the bucket that all newcomers share.                           *)
(***************************************************************************)
EXTENDS Gateway, TLAPS

\* The stages of a request that work on a session.
WithSession == {"evaluate", "issue", "read", "get", "validate", "reissue", "persist"}

\* A view and what was true of its session while the request ran, o, fit together:
\* the identity is that of the credentials, the snapshot was current once, and a
\* request without a session has seen it missing.
Sound(v, o) ==
  /\ v.at \in WithSession => v.id # NoSID
  /\ v.at = "page" => v.key = "none"
  /\ v.at # "page" /\ v.id = NoSID => o.missing
  /\ v.key = "anon_new:global" => o.missing
  /\ v.at = "resolve" => v.snap = NoRecord /\ v.kind = "IdentityAnonymousNew"
  /\ v.at = "limit" => /\ v.kind = "IdentityAuthenticated" => v.cred = "principal"
                       /\ v.kind = "IdentityAPIToken" => v.cred = "token"
                       /\ v.kind \in {"IdentityAnonymous", "IdentityAnonymousNew"} => v.cred = "none"
  /\ v.at = "evaluate" => v.cred = "none"
  /\ v.at \in {"limit", "evaluate"} /\ Admitted(v.snap) => o.admitted
  /\ v.at = "reply" /\ v.shows = "content" =>
       \/ v.cred \in {"principal", "token"}
       \/ v.cred = "none" /\ o.admitted

\* The inductive invariant.
Inv == GatewayTypeOK /\ \A t \in Tab : Sound(tab[t], seen[t])

-----------------------------------------------------------------------------
(* Records and views.                                                      *)

LEMMA RecordTypes ==
  /\ NoRecord \in Record
  /\ \A s \in State : InState(s) \in Record
  /\ \A r \in Record : /\ \A s \in State : [r EXCEPT !.state = s] \in Record
                       /\ [r EXCEPT !.dead = TRUE] \in Record
                       /\ [r EXCEPT !.over = TRUE] \in Record
                       /\ [r EXCEPT !.live = FALSE] \in Record
                       /\ [r EXCEPT !.live = TRUE, !.attempts = 0] \in Record
                       /\ [r EXCEPT !.live = FALSE, !.attempts = 0] \in Record
<1>1. 0 \in 0 .. MaxAttempts - 1
  BY GatewayAssumption
<1>2. NoRecord \in Record
  BY <1>1, Zenon DEF NoRecord, Record, State
<1> QED BY <1>1, <1>2 DEF InState, Record, NoRecord, State

LEMMA BlankType == Blank \in View
  BY RecordTypes DEF Blank, View, Stage, Page, Kind, Key

\* A view stays a view when a request moves on.
LEMMA ViewTypes ==
  ASSUME NEW v \in View
  PROVE  /\ \A at \in Stage : [v EXCEPT !.at = at] \in View
         /\ \A page \in Page, cookie \in {"keep", "set", "clear"} : Reply(v, page, cookie) \in View
         /\ writeMappedError(v) \in View
         /\ [v EXCEPT !.right = FALSE] \in View
         /\ \A k \in Key : [v EXCEPT !.key = k] \in View
<1>1. \A page \in Page, cookie \in {"keep", "set", "clear"} : Reply(v, page, cookie) \in View
  BY RecordTypes DEF Reply, View, Stage, Kind
<1>2. writeMappedError(v) \in View
  BY <1>1 DEF writeMappedError, Page
<1> QED BY <1>1, <1>2 DEF View

\* What Observe makes of a request, spelt out.
LEMMA Observed ==
  ASSUME Observe, NEW t \in Tab
  PROVE  /\ seen'[t].admitted <=>
              /\ tab'[t].at # "page"
              /\ \/ tab[t].at # "page" /\ seen[t].admitted
                 \/ tab'[t].id # NoSID /\ Admitted(sess'[tab'[t].id])
         /\ seen'[t].missing <=>
              /\ tab'[t].at # "page"
              /\ \/ tab[t].at # "page" /\ seen[t].missing
                 \/ tab'[t].id = NoSID
                 \/ sess'[tab'[t].id].state = "NONE"
  BY DEF Observe

LEMMA ObservedTypes == Observe => seen' \in [Tab -> [admitted : BOOLEAN, missing : BOOLEAN]]
  BY DEF Observe

\* Go and GoWithout move one request, and leave of the others all but right alone.
Steps(t, nv) == Go(t, nv) \/ \E s \in SID \cup {NoSID} : GoWithout(t, nv, s)

LEMMA StepsMove ==
  ASSUME tab \in [Tab -> View], NEW t \in Tab, NEW nv \in View, Steps(t, nv)
  PROVE  /\ tab' \in [Tab -> View]
         /\ tab'[t] = nv
         /\ \A u \in Tab \ {t} : tab'[u] \in {tab[u], [tab[u] EXCEPT !.right = FALSE]}
<1>1. CASE Go(t, nv)
  BY <1>1 DEF Go
<1>2. ASSUME NEW s \in SID \cup {NoSID}, GoWithout(t, nv, s)
      PROVE  /\ tab' \in [Tab -> View]
             /\ tab'[t] = nv
             /\ \A u \in Tab \ {t} : tab'[u] \in {tab[u], [tab[u] EXCEPT !.right = FALSE]}
  <2>1. \A u \in Tab : [tab[u] EXCEPT !.right = FALSE] \in View
    BY ViewTypes
  <2> QED BY <1>2, <2>1 DEF GoWithout
<1> QED BY <1>1, <1>2 DEF Steps

\* A request that does not move stays sound, whatever happens to its session.
LEMMA OthersSound ==
  ASSUME Inv, Observe, NEW u \in Tab, tab'[u] \in {tab[u], [tab[u] EXCEPT !.right = FALSE]}
  PROVE  Sound(tab'[u], seen'[u])
<1>1. tab[u] \in View /\ Sound(tab[u], seen[u])
  BY DEF Inv, GatewayTypeOK
<1>2. /\ tab'[u].at = tab[u].at /\ tab'[u].id = tab[u].id /\ tab'[u].key = tab[u].key
      /\ tab'[u].snap = tab[u].snap /\ tab'[u].kind = tab[u].kind /\ tab'[u].cred = tab[u].cred
      /\ tab'[u].shows = tab[u].shows
  BY <1>1 DEF View
<1>3. /\ tab[u].at # "page" /\ seen[u].admitted => seen'[u].admitted
      /\ tab[u].at # "page" /\ (seen[u].missing \/ tab[u].id = NoSID) => seen'[u].missing
  BY <1>2, Observed
<1>4. tab[u].at = "page" => tab[u].key = "none"
  BY <1>1 DEF Sound
<1> QED BY <1>1, <1>2, <1>3, <1>4 DEF Sound, WithSession

\* Most steps of a request take it to a stage, or an answer, that asks for no right.
LEMMA Onward ==
  ASSUME Inv, Observe, NEW t \in Tab, tab[t].at # "page",
         tab'[t].at \notin {"page", "resolve", "limit", "evaluate"},
         tab'[t].id = tab[t].id, tab'[t].key = tab[t].key,
         tab'[t].at \in WithSession => tab[t].id # NoSID,
         tab'[t].at = "reply" => tab'[t].shows # "content"
  PROVE  Sound(tab'[t], seen'[t])
<1>1. Sound(tab[t], seen[t])
  BY DEF Inv
<1>2. (seen[t].missing \/ tab[t].id = NoSID) => seen'[t].missing
  BY Observed
<1> QED BY <1>1, <1>2 DEF Sound

\* What is left to show of a step of t.
Moved(t) ==
  /\ sess' \in [SID -> Record] /\ jar' \in SID \cup {NoSID}
  /\ config' = config /\ flooded' = flooded /\ budget' \in 0 .. config.events
  /\ \E nv \in View : Steps(t, nv)
  /\ Sound(tab'[t], seen'[t])

LEMMA MovedKeepsInv == ASSUME Inv, Observe, NEW t \in Tab, Moved(t) PROVE Inv'
<1>1. PICK nv \in View : Steps(t, nv)
  BY DEF Moved
<1>2. tab \in [Tab -> View]
  BY DEF Inv, GatewayTypeOK
<1>3. /\ tab' \in [Tab -> View]
      /\ \A u \in Tab \ {t} : tab'[u] \in {tab[u], [tab[u] EXCEPT !.right = FALSE]}
  BY <1>1, <1>2, StepsMove
<1>4. \A u \in Tab : Sound(tab'[u], seen'[u])
  BY <1>3, OthersSound DEF Moved
<1>5. flooded' \in BOOLEAN /\ config' \in Configs /\ budget' \in 0 .. config'.events
  BY DEF Moved, Inv, GatewayTypeOK
<1>6. GatewayTypeOK'
  BY <1>3, <1>5, ObservedTypes DEF Moved, GatewayTypeOK
<1> QED BY <1>4, <1>6 DEF Inv

-----------------------------------------------------------------------------
(* The steps of a request, one lemma per handler.                          *)

LEMMA ReplyFields ==
  ASSUME NEW v \in View, NEW page \in Page, NEW cookie \in {"keep", "set", "clear"}
  PROVE  /\ Reply(v, page, cookie) \in View
         /\ Reply(v, page, cookie).at = "reply" /\ Reply(v, page, cookie).shows = page
         /\ Reply(v, page, cookie).id = v.id /\ Reply(v, page, cookie).key = v.key
         /\ Reply(v, page, cookie).cred = v.cred
<1>1. Reply(v, page, cookie) \in View
  BY ViewTypes
<1> QED BY <1>1 DEF Reply, View

LEMMA ErrorFields ==
  ASSUME NEW v \in View
  PROVE  /\ writeMappedError(v).at = "reply" /\ writeMappedError(v).shows = "blank"
         /\ writeMappedError(v).id = v.id /\ writeMappedError(v).key = v.key
         /\ writeMappedError(v).cred = v.cred
  BY ReplyFields DEF writeMappedError, Page

\* What the lemmas below start from.
LEMMA Start ==
  ASSUME Inv, NEW t \in Tab
  PROVE  /\ tab \in [Tab -> View] /\ tab[t] \in View /\ Sound(tab[t], seen[t])
         /\ sess \in [SID -> Record] /\ jar \in SID \cup {NoSID}
         /\ budget \in 0 .. config.events /\ config.events \in Nat
         /\ tab[t].id \in SID \cup {NoSID}
         /\ tab[t].at \in WithSession => tab[t].id \in SID /\ sess[tab[t].id] \in Record
  BY GatewayAssumption DEF Inv, GatewayTypeOK, View, Sound

LEMMA Spent ==
  ASSUME Inv, Spend \/ UNCHANGED budget PROVE budget' \in 0 .. config.events
  BY GatewayAssumption DEF Inv, GatewayTypeOK, Spend

\* A failing store call, wherever it happens, is an error page.
LEMMA FailsMoves == ASSUME Inv, Observe, NEW t \in Tab, tab[t].at # "page", Fails(t) PROVE Moved(t)
<1> DEFINE nv == writeMappedError(tab[t])
<1>1. nv \in View /\ Steps(t, nv)
  BY Start, ViewTypes DEF Fails, Steps
<1>2. tab'[t] = nv
  BY <1>1, Start, StepsMove
<1>3. Sound(tab'[t], seen'[t])
  BY <1>2, Start, ErrorFields, Onward DEF WithSession
<1>4. budget' \in 0 .. config.events
  BY Spent DEF Fails
<1> QED BY <1>1, <1>3, <1>4, Start DEF Moved, Fails, server

LEMMA IdentityFields ==
  ASSUME Inv, NEW t \in Tab, tab[t].at = "resolve", ~Refused(tab[t])
  PROVE  LET v == tab[t]
             w == [Identity(v) EXCEPT !.at = "limit"]
         IN  /\ w \in View /\ w.at = "limit" /\ w.key = v.key /\ w.cred = v.cred
             /\ w.kind = "IdentityAuthenticated" => v.cred = "principal"
             /\ w.kind = "IdentityAPIToken" => v.cred = "token"
             /\ w.kind \in {"IdentityAnonymous", "IdentityAnonymousNew"} => v.cred = "none"
             /\ Admitted(w.snap) => w.id \in SID /\ Admitted(sess[w.id])
<1> DEFINE v == tab[t]
<1>0. /\ v \in View /\ v.snap = NoRecord /\ v.kind = "IdentityAnonymousNew"
      /\ v.cred \in {"none", "principal", "token"} /\ ~Admitted(NoRecord)
  BY Start DEF Sound, Refused, View, Admitted, NoRecord
<1>1. CASE v.cred = "principal"
  <2>1. Identity(v) = [v EXCEPT !.kind = "IdentityAuthenticated", !.id = NoSID]
    BY <1>1 DEF Identity
  <2> QED BY <1>0, <1>1, <2>1 DEF View, Stage, Kind
<1>2. CASE v.cred = "token"
  <2>1. Identity(v) = [v EXCEPT !.kind = "IdentityAPIToken", !.id = NoSID]
    BY <1>2 DEF Identity
  <2> QED BY <1>0, <1>2, <2>1 DEF View, Stage, Kind
<1>3. CASE v.cred = "none" /\ v.id = NoSID
  <2>1. Identity(v) = [v EXCEPT !.kind = "IdentityAnonymousNew", !.id = NoSID]
    BY <1>3 DEF Identity
  <2> QED BY <1>0, <1>3, <2>1 DEF View, Stage, Kind
<1>4. CASE v.cred = "none" /\ v.id # NoSID /\ sess[v.id].state = "NONE"
  <2>1. Identity(v) = [v EXCEPT !.id = NoSID]
    BY <1>4 DEF Identity
  <2> QED BY <1>0, <1>4, <2>1 DEF View, Stage, Kind
<1>5. CASE v.cred = "none" /\ v.id # NoSID /\ sess[v.id].state # "NONE"
  <2> DEFINE k == IF Admitted(sess[v.id]) THEN "IdentityAnonymous" ELSE "IdentityAnonymousNew"
  <2>1. Identity(v) = [v EXCEPT !.snap = sess[v.id], !.kind = k]
    BY <1>5 DEF Identity
  <2>2. sess[v.id] \in Record /\ v.id \in SID
    BY <1>5, Start
  <2>3. k \in {"IdentityAnonymous", "IdentityAnonymousNew"}
    OBVIOUS
  <2> HIDE DEF k
  <2> QED BY <1>0, <1>5, <2>1, <2>2, <2>3 DEF View, Stage, Kind
<1> QED BY <1>0, <1>1, <1>2, <1>3, <1>4, <1>5

\* The resolver looks at the store once, and the limiter goes by what it saw.
LEMMA ResolveMoves ==
  ASSUME Inv, Observe, NEW t \in Tab, ResolveWithSession(t) PROVE Moved(t)
<1> DEFINE v == tab[t]
<1>0. v.at = "resolve" /\ v \in View /\ Sound(v, seen[t])
  BY Start DEF ResolveWithSession
<1>1. CASE Fails(t)
  BY <1>0, <1>1, FailsMoves
<1>2. ASSUME Refused(v), Go(t, writeMappedError(v)), UNCHANGED <<sess, jar, server, budget>>
      PROVE  Moved(t)
  <2>1. writeMappedError(v) \in View /\ Steps(t, writeMappedError(v))
    BY <1>0, <1>2, ViewTypes DEF Steps
  <2>2. tab'[t] = writeMappedError(v)
    BY <2>1, Start, StepsMove
  <2>3. Sound(tab'[t], seen'[t])
    BY <1>0, <2>2, ErrorFields, Onward DEF WithSession
  <2> QED BY <1>2, <2>1, <2>3, Start DEF Moved, server
<1>3. ASSUME ~Refused(v), Go(t, [Identity(v) EXCEPT !.at = "limit"]),
             UNCHANGED <<sess, jar, server, budget>>
      PROVE  Moved(t)
  <2> DEFINE w == [Identity(v) EXCEPT !.at = "limit"]
  <2>1. /\ w \in View /\ w.at = "limit" /\ w.key = v.key /\ w.cred = v.cred
        /\ w.kind = "IdentityAuthenticated" => v.cred = "principal"
        /\ w.kind = "IdentityAPIToken" => v.cred = "token"
        /\ w.kind \in {"IdentityAnonymous", "IdentityAnonymousNew"} => v.cred = "none"
        /\ Admitted(w.snap) => w.id \in SID /\ Admitted(sess[w.id])
    BY <1>0, <1>3, IdentityFields
  <2>2. Steps(t, w)
    BY <1>3 DEF Steps
  <2> HIDE DEF w
  <2>3. tab'[t] = w
    BY <2>1, <2>2, Start, StepsMove
  <2>4. sess' = sess
    BY <1>3
  <2>5. /\ Admitted(w.snap) => seen'[t].admitted
        /\ w.id = NoSID => seen'[t].missing
        /\ seen[t].missing => seen'[t].missing
    BY <1>0, <2>1, <2>3, <2>4, Observed, GatewayAssumption
  <2>6. Sound(tab'[t], seen'[t])
    BY <1>0, <2>1, <2>3, <2>5 DEF Sound, WithSession
  <2> QED BY <1>3, <2>1, <2>2, <2>6, Start DEF Moved, server
<1> QED BY <1>1, <1>2, <1>3 DEF ResolveWithSession

LEMMA KeyOf ==
  ASSUME NEW v \in View
  PROVE  /\ RateLimitKey(v) \in Key
         /\ RateLimitKey(v) = "anon_new:global" => v.id = NoSID
<1>1. v.kind \in Kind
  BY DEF View
<1> QED BY <1>1 DEF RateLimitKey, Key, Kind

\* A request that is let through by the limiter, with the key it was charged under.
LEMMA PassMoves ==
  ASSUME Inv, Observe, NEW t \in Tab, tab[t].at = "limit", Pass(t),
         UNCHANGED <<sess, jar, server>>, Spend \/ UNCHANGED budget
  PROVE  Moved(t)
<1> DEFINE K == RateLimitKey(tab[t])
           v == [tab[t] EXCEPT !.key = K]
<1>0. tab[t] \in View /\ Sound(tab[t], seen[t])
  BY Start
<1>1. K \in Key /\ (K = "anon_new:global" => tab[t].id = NoSID)
  BY <1>0, KeyOf
<1> HIDE DEF K
<1>2. v \in View /\ v.key = K /\ v.id = tab[t].id /\ v.cred = tab[t].cred /\ v.kind = tab[t].kind
      /\ v.snap = tab[t].snap
  BY <1>0, <1>1 DEF View
<1>3. /\ seen[t].missing \/ v.id = NoSID => seen'[t].missing \/ tab'[t].at = "page"
      /\ seen[t].admitted => seen'[t].admitted \/ tab'[t].at = "page"
  BY <1>0, <1>2, Observed DEF Sound
<1>4. ASSUME NEW nv \in View, Go(t, nv),
             nv.at = "reply" \/ (nv.at = "evaluate" /\ nv.id # NoSID),
             nv.key = v.key, nv.cred = v.cred,
             nv.id = NoSID => v.id = NoSID,
             nv.at = "evaluate" => nv.cred = "none" /\ nv.snap = v.snap,
             nv.at = "reply" => nv.cred \in {"principal", "token"}
      PROVE  Moved(t)
  <2>1. Steps(t, nv)
    BY <1>4 DEF Steps
  <2>2. tab'[t] = nv
    BY <2>1, Start, StepsMove
  <2>3. Sound(tab'[t], seen'[t])
    BY <1>0, <1>1, <1>2, <1>3, <1>4, <2>2 DEF Sound, WithSession
  <2> QED BY <2>1, <2>3, Start, Spent DEF Moved, server
<1>5. CASE v.kind \in {"IdentityAuthenticated", "IdentityAPIToken"}
  <2>1. Go(t, Reply(v, "content", "keep"))
    BY <1>5 DEF Pass, K, Reply
  <2> DEFINE nv == Reply(v, "content", "keep")
  <2>2. nv \in View
    BY <1>2, ViewTypes DEF Page
  <2>3. nv.at = "reply" /\ nv.id = v.id /\ nv.key = v.key /\ nv.cred = v.cred
    BY <1>2 DEF Reply, View
  <2>4. v.cred \in {"principal", "token"}
    BY <1>0, <1>2, <1>5 DEF Sound
  <2>5. Go(t, nv)
    BY <2>1
  <2> HIDE DEF nv
  <2> QED BY <1>4, <2>2, <2>3, <2>4, <2>5
<1>6. CASE v.kind \notin {"IdentityAuthenticated", "IdentityAPIToken"} /\ v.id = NoSID
  <2> DEFINE new == CHOOSE s \in Unused : TRUE
  <2>1. Unused # {} /\ Go(t, [v EXCEPT !.at = "evaluate", !.id = new])
    BY <1>6 DEF Pass, K
  <2>2. new \in SID
    BY <2>1 DEF Unused
  <2> HIDE DEF new
  <2> DEFINE nv == [v EXCEPT !.at = "evaluate", !.id = new]
  <2>3. /\ nv \in View /\ nv.at = "evaluate" /\ nv.id = new /\ nv.key = v.key /\ nv.cred = v.cred
        /\ nv.snap = v.snap
    BY <1>2, <2>2 DEF View, Stage
  <2>4. v.cred = "none"
    BY <1>0, <1>2, <1>6 DEF Sound, View, Kind
  <2> HIDE DEF v
  <2> QED BY <1>4, <2>1, <2>2, <2>3, <2>4, GatewayAssumption
<1>7. CASE v.kind \notin {"IdentityAuthenticated", "IdentityAPIToken"} /\ v.id # NoSID
  <2> DEFINE nv == [v EXCEPT !.at = "evaluate"]
  <2>1. Go(t, nv)
    BY <1>7 DEF Pass, K
  <2>2. /\ nv \in View /\ nv.at = "evaluate" /\ nv.id = v.id /\ nv.key = v.key /\ nv.cred = v.cred
        /\ nv.snap = v.snap
    BY <1>2 DEF View, Stage
  <2>3. v.cred = "none"
    BY <1>0, <1>2, <1>7 DEF Sound, View, Kind
  <2> HIDE DEF v
  <2> QED BY <1>4, <1>7, <2>1, <2>2, <2>3
<1> QED BY <1>5, <1>6, <1>7

\* Let through, turned away or failed under the limiter.
LEMMA LimitMoves ==
  ASSUME Inv, Observe, NEW t \in Tab, Allow(t) \/ RateLimited(t) \/ LimiterFails(t) PROVE Moved(t)
<1> DEFINE K == RateLimitKey(tab[t])
           w == [tab[t] EXCEPT !.key = K]
<1>0. tab[t] \in View /\ Sound(tab[t], seen[t]) /\ tab[t].at = "limit"
  BY Start DEF Allow, RateLimited, LimiterFails
<1>1. CASE Allow(t)
  BY <1>0, <1>1, PassMoves DEF Allow
<1>2. CASE LimiterFails(t)
  BY <1>0, <1>2, PassMoves, FailsMoves DEF LimiterFails
<1>3. CASE RateLimited(t)
  <2>1. K \in Key /\ (K = "anon_new:global" => tab[t].id = NoSID)
    BY <1>0, KeyOf
  <2>2. Go(t, writeMappedError(w)) /\ (Spend \/ UNCHANGED budget)
        /\ UNCHANGED <<sess, jar, server>>
    BY <1>3 DEF RateLimited
  <2> HIDE DEF K
  <2>3. w \in View /\ w.key = K /\ w.id = tab[t].id
    BY <1>0, <2>1 DEF View
  <2>4. writeMappedError(w) \in View /\ Steps(t, writeMappedError(w))
    BY <2>2, <2>3, ViewTypes DEF Steps
  <2>5. /\ writeMappedError(w).at = "reply" /\ writeMappedError(w).shows = "blank"
        /\ writeMappedError(w).id = tab[t].id /\ writeMappedError(w).key = K
    BY <2>3, ErrorFields
  <2>6. tab'[t] = writeMappedError(w)
    BY <2>4, Start, StepsMove
  <2> HIDE DEF w
  <2>7. seen[t].missing \/ tab[t].id = NoSID => seen'[t].missing
    BY <1>0, <2>5, <2>6, Observed
  <2>8. Sound(tab'[t], seen'[t])
    BY <1>0, <2>1, <2>5, <2>6, <2>7 DEF Sound, WithSession
  <2> QED BY <2>2, <2>4, <2>8, Start, Spent DEF Moved, server
<1> QED BY <1>1, <1>2, <1>3

\* The answer to a record r that was current once while the request ran.
LEMMA VerdictMoves ==
  ASSUME Inv, Observe, NEW t \in Tab, tab[t].at = "evaluate", NEW r \in Record,
         Go(t, Verdict(tab[t], r)), sess' \in [SID -> Record],
         Admitted(r) => seen[t].admitted \/ Admitted(sess'[tab[t].id]),
         UNCHANGED <<jar, server>>, Spend \/ UNCHANGED budget
  PROVE  Moved(t)
<1> DEFINE v == tab[t]
           nv == Verdict(v, r)
<1>0. v \in View /\ Sound(v, seen[t]) /\ v.id \in SID /\ v.id # NoSID /\ v.cred = "none"
  BY Start, GatewayAssumption DEF Sound, WithSession
<1>1. r.state \in State /\ SessionCookie(r) \in {"keep", "set", "clear"}
  BY DEF Record, SessionCookie
<1>2. /\ nv \in View /\ nv.id = v.id /\ nv.key = v.key /\ nv.cred = v.cred
      /\ nv.at \in {"reply", "issue"}
      /\ nv.at = "reply" /\ nv.shows = "content" => Admitted(r)
  <2>1. CASE r.state = "NONE"
    <3>1. nv = writeMappedError(v)
      BY <2>1 DEF Verdict
    <3> QED BY <1>0, <3>1, ErrorFields, ViewTypes
  <2>2. CASE r.state # "NONE" /\ (r.state = "REVOKED" \/ r.dead)
    <3>1. nv = Reply(v, "blank", SessionCookie(r)) /\ "blank" \in Page
      BY <2>2 DEF Verdict, Page
    <3> QED BY <1>0, <1>1, <3>1, ReplyFields
  <2>3. CASE r.state = "ADMITTED" /\ ~r.dead
    <3>1. nv = Reply(v, "content", SessionCookie(r)) /\ "content" \in Page /\ Admitted(r)
      BY <2>3 DEF Verdict, Admitted, Page
    <3> QED BY <1>0, <1>1, <3>1, ReplyFields
  <2>4. CASE r.state = "CHALLENGE_REQUIRED" /\ ~r.dead
    <3>1. nv = [v EXCEPT !.at = "issue", !.snap = NoRecord]
      BY <2>4 DEF Verdict
    <3> QED BY <1>0, <3>1, RecordTypes DEF View, Stage
  <2>5. CASE r.state = "WAITING" /\ ~r.dead
    <3>1. nv = Reply(v, "wait", SessionCookie(r)) /\ "wait" \in Page
      BY <2>5 DEF Verdict, Page
    <3> QED BY <1>0, <1>1, <3>1, ReplyFields
  <2> QED BY <1>1, <2>1, <2>2, <2>3, <2>4, <2>5 DEF State
<1>3. Steps(t, nv)
  BY DEF Steps
<1> HIDE DEF nv
<1>4. tab'[t] = nv
  BY <1>2, <1>3, Start, StepsMove
<1>5. /\ seen[t].missing => seen'[t].missing
      /\ Admitted(r) => seen'[t].admitted
  BY <1>0, <1>2, <1>4, Observed
<1>6. Sound(tab'[t], seen'[t])
  BY <1>0, <1>2, <1>4, <1>5 DEF Sound
<1> QED BY <1>2, <1>3, <1>6, Start, Spent DEF Moved, server

\* evaluate, on the snapshot; handleWaitElapsed and handleNewClient, on the store.
LEMMA EvaluateMoves ==
  ASSUME Inv, Observe, NEW t \in Tab, evaluate(t) \/ handleWaitElapsed(t) \/ handleNewClient(t)
  PROVE  Moved(t)
<1> DEFINE v == tab[t]
<1>0. /\ v.at = "evaluate" /\ v \in View /\ Sound(v, seen[t])
      /\ v.id \in SID /\ sess[v.id] \in Record /\ v.snap \in Record
      /\ sess \in [SID -> Record]
  BY Start DEF evaluate, handleWaitElapsed, handleNewClient, WithSession, View
<1>1. CASE Fails(t)
  BY <1>0, <1>1, FailsMoves
<1>2. CASE evaluate(t)
  <2>1. UNCHANGED <<sess, jar, server>> /\ sess' \in [SID -> Record]
    BY <1>0, <1>2 DEF evaluate
  <2>2. CASE Go(t, Verdict(v, v.snap)) /\ UNCHANGED budget
    <3>1. Admitted(v.snap) => seen[t].admitted
      BY <1>0 DEF Sound
    <3> QED BY <1>0, <2>1, <2>2, <3>1, VerdictMoves
  <2>3. CASE Spend /\ Go(t, Verdict(v, [v.snap EXCEPT !.dead = TRUE]))
    <3>1. [v.snap EXCEPT !.dead = TRUE] \in Record /\ ~Admitted([v.snap EXCEPT !.dead = TRUE])
      BY <1>0, RecordTypes DEF Admitted, Record
    <3> QED BY <1>0, <2>1, <2>3, <3>1, VerdictMoves
  <2> QED BY <1>2, <2>2, <2>3 DEF evaluate
<1>3. CASE handleWaitElapsed(t) /\ ~Fails(t)
  <2> DEFINE r == sess[v.id]
             to == IF config.captcha THEN "CHALLENGE_REQUIRED" ELSE "ADMITTED"
             next == [r EXCEPT !.state = to]
             done == r.state = "WAITING" /\ r.over /\ ~r.dead
  <2>1. /\ sess' = IF done THEN [sess EXCEPT ![v.id] = next] ELSE sess
        /\ Go(t, Verdict(v, IF done THEN next ELSE r))
        /\ UNCHANGED <<jar, server, budget>>
    BY <1>3 DEF handleWaitElapsed
  <2>2. next \in Record
    BY <1>0, RecordTypes DEF State
  <2> HIDE DEF next, done
  <2>3. CASE done
    <3>1. sess' \in [SID -> Record] /\ sess'[v.id] = next /\ Go(t, Verdict(v, next))
      BY <1>0, <2>1, <2>2, <2>3
    <3> QED BY <1>0, <2>1, <2>2, <3>1, VerdictMoves
  <2>4. CASE ~done
    <3>1. sess' = sess /\ Go(t, Verdict(v, r))
      BY <2>1, <2>4
    <3> QED BY <1>0, <2>1, <3>1, VerdictMoves
  <2> QED BY <2>3, <2>4
<1>4. CASE handleNewClient(t) /\ ~Fails(t)
  <2> DEFINE to == IF config.waitRoom THEN "WAITING"
                   ELSE IF config.captcha THEN "CHALLENGE_REQUIRED" ELSE "ADMITTED"
             first == InState(to)
  <2>1. /\ sess' = [sess EXCEPT ![v.id] = first]
        /\ Go(t, Verdict(v, first))
        /\ UNCHANGED <<jar, server, budget>>
    BY <1>4 DEF handleNewClient
  <2>2. first \in Record
    BY RecordTypes DEF State
  <2> HIDE DEF first
  <2>3. sess' \in [SID -> Record] /\ sess'[v.id] = first
    BY <1>0, <2>1, <2>2
  <2> QED BY <1>0, <2>1, <2>2, <2>3, VerdictMoves
<1> QED BY <1>1, <1>2, <1>3, <1>4

\* The other steps of a request on its session, none of which leads to the handler.
LEMMA ContinueMoves ==
  ASSUME Inv, Observe, NEW t \in Tab, tab[t].at # "page", NEW nv \in View, Steps(t, nv),
         nv.at \in {"issue", "read", "get", "validate", "reissue", "persist", "reply"},
         nv.at # "reply" => tab[t].id # NoSID,
         nv.at = "reply" => nv.shows # "content",
         nv.id = tab[t].id, nv.key = tab[t].key,
         sess' \in [SID -> Record], UNCHANGED <<jar, server>>, Spend \/ UNCHANGED budget
  PROVE  Moved(t)
<1>1. tab'[t] = nv
  BY Start, StepsMove
<1>2. Sound(tab'[t], seen'[t])
  BY <1>1, Onward DEF WithSession
<1> QED BY <1>2, Start, Spent DEF Moved, server

LEMMA IssueMoves == ASSUME Inv, Observe, NEW t \in Tab, Issue(t) PROVE Moved(t)
<1> DEFINE v == tab[t]
           base == Reply(v, "challenge", WithCookie(v))
           shown == [base EXCEPT !.right = TRUE]
           renewed == [sess[v.id] EXCEPT !.live = TRUE, !.attempts = 0]
<1>0. /\ v \in View /\ v.at # "page" /\ v.id \in SID
      /\ sess \in [SID -> Record] /\ sess[v.id] \in Record
  BY Start DEF Issue, WithSession
<1>1. /\ base \in View /\ base.at = "reply" /\ base.shows = "challenge"
      /\ base.id = v.id /\ base.key = v.key
  <2>1. WithCookie(v) \in {"keep", "set", "clear"} /\ "challenge" \in Page
    BY DEF WithCookie, Page
  <2> QED BY <1>0, <2>1, ReplyFields
<1> HIDE DEF base
<1>2. /\ shown \in View /\ shown.at = "reply" /\ shown.shows = "challenge"
      /\ shown.id = v.id /\ shown.key = v.key
  BY <1>1 DEF View
<1> HIDE DEF shown
<1>3. CASE Fails(t)
  BY <1>0, <1>3, FailsMoves
<1>4. ASSUME sess' = [sess EXCEPT ![v.id].live = TRUE, ![v.id].attempts = 0],
             GoWithout(t, shown, v.id), UNCHANGED <<jar, server, budget>>
      PROVE  Moved(t)
  <2>1. sess' \in [SID -> Record]
    BY <1>0, <1>4, RecordTypes
  <2>2. Steps(t, shown)
    BY <1>0, <1>4 DEF Steps
  <2> QED BY <1>0, <1>2, <1>4, <2>1, <2>2, ContinueMoves
<1>5. ASSUME Go(t, shown), UNCHANGED <<sess, jar, server, budget>> PROVE Moved(t)
  BY <1>0, <1>2, <1>5, ContinueMoves DEF Steps
<1>6. ASSUME Go(t, writeMappedError(v)), UNCHANGED <<sess, jar, server, budget>> PROVE Moved(t)
  BY <1>0, <1>6, ErrorFields, ViewTypes, ContinueMoves DEF Steps
<1> QED BY <1>3, <1>4, <1>5, <1>6 DEF Issue, shown, base

LEMMA EndpointMoves ==
  ASSUME Inv, Observe, NEW t \in Tab, ChallengeLimit(t) \/ AlreadyAdmitted(t) \/ PersistCookie(t)
  PROVE  Moved(t)
<1> DEFINE v == tab[t]
<1>0. v \in View /\ v.at # "page" /\ sess \in [SID -> Record] /\ v.id \in SID \cup {NoSID}
  BY Start DEF ChallengeLimit, AlreadyAdmitted, PersistCookie
<1>1. CASE Fails(t)
  BY <1>0, <1>1, FailsMoves
<1>2. CASE ChallengeLimit(t) /\ ~Fails(t)
  <2>1. CASE v.id = NoSID
    <3>1. Go(t, writeMappedError(v)) /\ UNCHANGED <<sess, jar, server, budget>>
      BY <1>2, <2>1 DEF ChallengeLimit
    <3> QED BY <1>0, <3>1, ErrorFields, ViewTypes, ContinueMoves DEF Steps
  <2>2. CASE v.id # NoSID
    <3> DEFINE nv == [v EXCEPT !.at = "read"]
    <3>1. Go(t, nv) /\ UNCHANGED <<sess, jar, server>> /\ (Spend \/ UNCHANGED budget)
      BY <1>2, <2>2 DEF ChallengeLimit
    <3>2. nv \in View /\ nv.at = "read" /\ nv.id = v.id /\ nv.key = v.key
      BY <1>0 DEF View, Stage
    <3> HIDE DEF nv
    <3> QED BY <1>0, <2>2, <3>1, <3>2, ContinueMoves DEF Steps
  <2> QED BY <2>1, <2>2
<1>3. CASE AlreadyAdmitted(t)
  <2> DEFINE to == IF v.op = "get" THEN "get" ELSE "validate"
             on == [v EXCEPT !.at = to]
             redirect == Reply(v, "redirect", "keep")
  <2>1. /\ Go(t, redirect) \/ Go(t, on)
        /\ UNCHANGED <<sess, jar, server>> /\ (Spend \/ UNCHANGED budget)
    BY <1>3 DEF AlreadyAdmitted
  <2>2. v.id # NoSID
    BY <1>3, Start, GatewayAssumption DEF AlreadyAdmitted, WithSession
  <2>3. on \in View /\ on.at \in {"get", "validate"} /\ on.id = v.id /\ on.key = v.key
    BY <1>0 DEF View, Stage
  <2>4. /\ redirect \in View /\ redirect.at = "reply" /\ redirect.shows = "redirect"
        /\ redirect.id = v.id /\ redirect.key = v.key
    <3>1. "redirect" \in Page
      BY DEF Page
    <3> QED BY <1>0, <3>1, ReplyFields
  <2> HIDE DEF on, redirect
  <2> QED BY <1>0, <2>1, <2>2, <2>3, <2>4, ContinueMoves DEF Steps
<1>4. CASE PersistCookie(t)
  <2> DEFINE r == sess[v.id]
             cookie == IF r.state = "NONE" THEN "keep" ELSE SessionCookie(r)
  <2>1. /\ Go(t, Reply(v, "redirect", cookie)) \/ Go(t, Reply(v, "redirect", "keep"))
        /\ UNCHANGED <<sess, jar, server>> /\ (Spend \/ UNCHANGED budget)
    BY <1>4 DEF PersistCookie
  <2>2. cookie \in {"keep", "set", "clear"} /\ "redirect" \in Page
    BY DEF SessionCookie, Page
  <2> HIDE DEF cookie
  <2>3. \A c \in {"keep", "set", "clear"} :
          /\ Reply(v, "redirect", c) \in View /\ Reply(v, "redirect", c).at = "reply"
          /\ Reply(v, "redirect", c).shows = "redirect"
          /\ Reply(v, "redirect", c).id = v.id /\ Reply(v, "redirect", c).key = v.key
    BY <1>0, <2>2, ReplyFields
  <2>4. PICK c \in {"keep", "set", "clear"} : Go(t, Reply(v, "redirect", c))
    BY <2>1, <2>2
  <2> QED BY <1>0, <2>1, <2>3, <2>4, ContinueMoves DEF Steps
<1> QED BY <1>1, <1>2, <1>3, <1>4

\* What Validate answers: another challenge, the cookie, or a page other than content.
Answers(t, nv) ==
  /\ nv \in View /\ nv.id = tab[t].id /\ nv.key = tab[t].key
  /\ nv.at \in {"reissue", "persist", "reply"}
  /\ nv.at = "reply" => nv.shows # "content"

LEMMA ValidateAnswers ==
  ASSUME Inv, NEW t \in Tab
  PROVE  LET v == tab[t] IN
         /\ Answers(t, writeMappedError(v))
         /\ Answers(t, Again(t, v))
         /\ Answers(t, FiberAccepted(v)) /\ Answers(t, Accepted(t, v))
         /\ Answers(t, Reply(v, "wait", "keep"))
<1> DEFINE v == tab[t]
           w == [v EXCEPT !.right = FALSE]
<1>0. v \in View
  BY Start
<1>1. w \in View /\ w.id = v.id /\ w.key = v.key
  BY <1>0 DEF View
<1>2. {"redirect", "wait"} \subseteq Page
  BY DEF Page
<1>3. Answers(t, writeMappedError(v))
  BY <1>0, ErrorFields, ViewTypes DEF Answers
<1>4. Answers(t, Reply(v, "wait", "keep"))
  BY <1>0, <1>2, ReplyFields DEF Answers
<1> HIDE DEF w
<1>5. Answers(t, Reply(w, "redirect", "keep"))
  BY <1>1, <1>2, ReplyFields DEF Answers
<1>6. Answers(t, [v EXCEPT !.at = "reissue", !.right = FALSE])
  BY <1>0 DEF Answers, View, Stage
<1>7. Answers(t, [v EXCEPT !.at = "persist", !.right = FALSE])
  BY <1>0 DEF Answers, View, Stage
<1>8. Answers(t, Again(t, v))
  BY <1>3, <1>6 DEF Again
<1>9. Answers(t, FiberAccepted(v)) /\ Answers(t, Accepted(t, v))
  BY <1>5, <1>7 DEF FiberAccepted, Accepted, w
<1> QED BY <1>3, <1>4, <1>8, <1>9

LEMMA ValidateMoves ==
  ASSUME Inv, Observe, NEW t \in Tab, Validate(t) \/ ChallengeLost(t) PROVE Moved(t)
<1> DEFINE v == tab[t]
           r == sess[v.id]
<1>0. /\ v \in View /\ v.at = "validate" /\ v.id \in SID /\ v.id # NoSID
      /\ sess \in [SID -> Record] /\ r \in Record
  BY Start, GatewayAssumption DEF Validate, ChallengeLost, WithSession
<1>1. ASSUME NEW nv, Answers(t, nv), Go(t, nv) \/ GoWithout(t, nv, v.id), sess' \in [SID -> Record],
             UNCHANGED <<jar, server>>, Spend \/ UNCHANGED budget
      PROVE  Moved(t)
  <2>1. Steps(t, nv)
    BY <1>0, <1>1 DEF Steps
  <2> QED BY <1>0, <1>1, <2>1, ContinueMoves DEF Answers
<1>2. CASE Fails(t)
  BY <1>0, <1>2, FailsMoves
<1>3. CASE Solve(t) /\ UNCHANGED <<jar, server, budget>>
  <2>1. sess' \in [SID -> Record]
    BY <1>0, <1>3, RecordTypes DEF Solve, State
  <2>2. GoWithout(t, FiberAccepted(v), v.id) \/ GoWithout(t, Accepted(t, v), v.id)
    BY <1>3 DEF Solve
  <2> QED BY <1>1, <1>3, <2>1, <2>2, ValidateAnswers
<1>4. CASE Miss(t) /\ UNCHANGED <<jar, server, budget>>
  <2>1. r.attempts + 1 \in 0 .. MaxAttempts - 1
    BY <1>0, <1>4, GatewayAssumption DEF Miss, LastTry, Record
  <2>2. [r EXCEPT !.attempts = @ + 1] \in Record
    BY <1>0, <2>1 DEF Record
  <2>3. sess' \in [SID -> Record]
    BY <1>0, <1>4, <2>2 DEF Miss
  <2> QED BY <1>1, <1>4, <2>3, ValidateAnswers DEF Miss
<1>5. CASE Exhaust(t) /\ UNCHANGED <<jar, server, budget>>
  <2>1. InState("WAITING") \in Record /\ [r EXCEPT !.live = FALSE, !.attempts = 0] \in Record
    BY <1>0, RecordTypes DEF State
  <2>2. sess' \in [SID -> Record]
    BY <1>0, <1>5, <2>1 DEF Exhaust
  <2>3. GoWithout(t, Reply(v, "wait", "keep"), v.id) \/ GoWithout(t, writeMappedError(v), v.id)
    BY <1>5 DEF Exhaust
  <2> QED BY <1>1, <1>5, <2>2, <2>3, ValidateAnswers
<1>6. CASE /\ Go(t, IF r.state = "CHALLENGE_REQUIRED" THEN Again(t, v) ELSE writeMappedError(v))
           /\ UNCHANGED <<sess, jar, server, budget>>
  BY <1>0, <1>1, <1>6, ValidateAnswers
<1>7. CASE ChallengeLost(t)
  <2>1. sess' \in [SID -> Record]
    BY <1>0, <1>7, RecordTypes DEF ChallengeLost
  <2> QED BY <1>1, <1>7, <2>1, ValidateAnswers DEF ChallengeLost
<1> QED BY <1>2, <1>3, <1>4, <1>5, <1>6, <1>7 DEF Validate

-----------------------------------------------------------------------------
(* The browser and the rest of the world.                                  *)

\* A request begins without a key, an identity or a snapshot.
LEMMA BrowserMoves ==
  ASSUME Inv, Observe, NEW t \in Tab, Deliver(t) \/ Lose(t) \/ Proceed(t) \/ Stray(t) PROVE Moved(t)
<1> DEFINE v == tab[t]
<1>0. v \in View /\ sess \in [SID -> Record] /\ jar \in SID \cup {NoSID} /\ v.id \in SID \cup {NoSID}
  BY Start
<1>1. ASSUME NEW nv \in View, Go(t, nv), nv.at \in {"page", "resolve", "endpoint"}, nv.key = "none",
             nv.snap = NoRecord, nv.kind = "IdentityAnonymousNew",
             sess' = sess, jar' \in SID \cup {NoSID}, UNCHANGED server, Spend \/ UNCHANGED budget
      PROVE  Moved(t)
  <2>1. Steps(t, nv)
    BY <1>1 DEF Steps
  <2>2. tab'[t] = nv
    BY <2>1, Start, StepsMove
  <2>3. nv.at # "page" /\ nv.id = NoSID => seen'[t].missing
    BY <2>2, Observed
  <2>4. Sound(tab'[t], seen'[t])
    BY <1>1, <2>2, <2>3 DEF Sound, WithSession
  <2> QED BY <1>0, <1>1, <2>1, <2>4, Spent DEF Moved, server
<1>2. ASSUME NEW cred \in {"none", "principal", "token", "bad"}
      PROVE  /\ Visit(cred) \in View /\ Visit(cred).at = "resolve" /\ Visit(cred).key = "none"
             /\ Visit(cred).snap = NoRecord /\ Visit(cred).kind = "IdentityAnonymousNew"
  BY <1>0, BlankType DEF Visit, View, Stage, Blank
<1>3. ASSUME NEW right \in BOOLEAN
      PROVE  /\ Post(right) \in View /\ Post(right).at = "endpoint" /\ Post(right).key = "none"
             /\ Post(right).snap = NoRecord /\ Post(right).kind = "IdentityAnonymousNew"
  BY <1>0, BlankType DEF Post, View, Stage, Blank
<1>4. CASE Deliver(t)
  <2> DEFINE nv == IF v.shows = "challenge" THEN [Blank EXCEPT !.shows = v.shows, !.id = v.id, !.right = v.right]
                   ELSE [Blank EXCEPT !.shows = v.shows]
  <2>1. /\ nv \in View /\ nv.at = "page" /\ nv.key = "none"
        /\ nv.snap = NoRecord /\ nv.kind = "IdentityAnonymousNew"
    BY <1>0, BlankType DEF View, Stage, Blank
  <2>2. Go(t, nv) /\ UNCHANGED <<sess, server, budget>>
    BY <1>4 DEF Deliver
  <2>3. jar' \in SID \cup {NoSID}
    BY <1>0, <1>4 DEF Deliver
  <2> HIDE DEF nv
  <2> QED BY <1>1, <2>1, <2>2, <2>3
<1>5. CASE Lose(t)
  <2>1. Blank.at = "page" /\ Blank.key = "none" /\ Blank.snap = NoRecord
        /\ Blank.kind = "IdentityAnonymousNew"
    BY DEF Blank
  <2> QED BY <1>0, <1>1, <1>5, <2>1, BlankType DEF Lose
<1>6. CASE Proceed(t)
  <2>2. /\ Go(t, Post(v.right /\ v.id = jar)) \/ Go(t, Visit("none"))
        /\ UNCHANGED <<sess, jar, server, budget>>
    BY <1>6 DEF Proceed
  <2>3. CASE Go(t, Visit("none"))
    BY <1>0, <1>1, <1>2, <2>2, <2>3
  <2>4. CASE Go(t, Post(v.right /\ v.id = jar))
    <3> DEFINE right == v.right /\ v.id = jar
    <3>1. right \in BOOLEAN
      OBVIOUS
    <3> HIDE DEF right
    <3>2. Go(t, Post(right))
      BY <2>4 DEF right
    <3> QED BY <1>0, <1>1, <1>3, <2>2, <3>1, <3>2
  <2> QED BY <2>2, <2>3, <2>4
<1>7. CASE Stray(t)
  <2> DEFINE get == [Blank EXCEPT !.at = "endpoint", !.id = jar, !.op = "get"]
  <2>1. /\ get \in View /\ get.at = "endpoint" /\ get.key = "none"
        /\ get.snap = NoRecord /\ get.kind = "IdentityAnonymousNew"
    BY <1>0, BlankType DEF View, Stage, Blank
  <2>2. /\ \/ Go(t, Post(FALSE)) \/ Go(t, get)
           \/ \E cred \in {"none", "principal", "token", "bad"} : Go(t, Visit(cred))
        /\ UNCHANGED <<sess, jar, server>> /\ Spend
    BY <1>7 DEF Stray
  <2> HIDE DEF get
  <2>3. FALSE \in BOOLEAN
    OBVIOUS
  <2> QED BY <1>0, <1>1, <1>2, <1>3, <2>1, <2>2, <2>3
<1> QED BY <1>4, <1>5, <1>6, <1>7

\* Events around the sessions touch no request but the answer it holds.
LEMMA WorldKeepsInv ==
  ASSUME Inv, Observe,
         (\E s \in SID : Event(s) \/ WaitElapses(s) \/ Forget(s)) \/ Flood \/ Subside
  PROVE  Inv'
<1>0. /\ tab \in [Tab -> View] /\ sess \in [SID -> Record] /\ jar \in SID \cup {NoSID}
      /\ config \in Configs /\ flooded \in BOOLEAN /\ budget \in 0 .. config.events
  BY DEF Inv, GatewayTypeOK
<1>1. ASSUME sess' \in [SID -> Record], tab' \in [Tab -> View],
             \A u \in Tab : tab'[u] \in {tab[u], [tab[u] EXCEPT !.right = FALSE]},
             jar' = jar, config' = config, flooded' \in BOOLEAN, Spend \/ UNCHANGED budget
      PROVE  Inv'
  <2>1. \A u \in Tab : Sound(tab'[u], seen'[u])
    BY <1>1, OthersSound
  <2>2. budget' \in 0 .. config'.events
    BY <1>1, Spent
  <2>3. GatewayTypeOK'
    BY <1>0, <1>1, <2>2, ObservedTypes DEF GatewayTypeOK
  <2> QED BY <2>1, <2>3 DEF Inv
<1>2. ASSUME NEW s \in SID, Event(s) PROVE Inv'
  <2>1. sess' \in [SID -> Record]
    BY <1>0, <1>2, RecordTypes DEF Event, State
  <2>2. \A u \in Tab : [tab[u] EXCEPT !.right = FALSE] \in View
    BY <1>0, ViewTypes
  <2>3. /\ tab' \in [Tab -> View]
        /\ \A u \in Tab : tab'[u] \in {tab[u], [tab[u] EXCEPT !.right = FALSE]}
    BY <1>0, <1>2, <2>2 DEF Event
  <2>4. UNCHANGED <<jar, config, flooded>> /\ Spend
    BY <1>2 DEF Event, server
  <2> QED BY <1>0, <1>1, <2>1, <2>3, <2>4
<1>3. ASSUME NEW s \in SID, WaitElapses(s) \/ Forget(s) PROVE Inv'
  <2>1. sess' \in [SID -> Record]
    BY <1>0, <1>3, RecordTypes DEF WaitElapses, Forget
  <2>2. UNCHANGED <<jar, tab, config, flooded, budget>>
    BY <1>3 DEF WaitElapses, Forget, server
  <2> QED BY <1>0, <1>1, <2>1, <2>2
<1>4. CASE Flood \/ Subside
  <2>1. UNCHANGED <<sess, jar, tab, config>> /\ (Spend \/ UNCHANGED budget)
    BY <1>4 DEF Flood, Subside
  <2>2. flooded' \in BOOLEAN
    BY <1>4, Zenon DEF Flood, Subside
  <2> QED BY <1>0, <1>1, <2>1, <2>2
<1> QED BY <1>2, <1>3, <1>4

\* The browser has just been opened.
LEMMA InitInv == Init => Inv
<1> SUFFICES ASSUME Init PROVE Inv
  OBVIOUS
<1>1. NoRecord \in Record /\ Blank \in View
  BY RecordTypes, BlankType
<1>2. flooded \in BOOLEAN
  BY Zenon DEF Init
<1>3. seen \in [Tab -> [admitted : BOOLEAN, missing : BOOLEAN]]
  BY Zenon DEF Init
<1>4. GatewayTypeOK
  BY <1>1, <1>2, <1>3, GatewayAssumption DEF Init, GatewayTypeOK
<1>5. \A t \in Tab : Sound(tab[t], seen[t])
  BY DEF Init, Sound, Blank, WithSession
<1> QED BY <1>4, <1>5 DEF Inv

\* Every step of a request, of the browser and of the rest of the world keeps Inv.
LEMMA NextInv == Inv /\ [Next]_vars => Inv'
<1> SUFFICES ASSUME Inv, [Next]_vars PROVE Inv'
  OBVIOUS
<1>1. ASSUME NEW t \in Tab, Serve(t), Observe PROVE Inv'
  <2>1. Moved(t)
    BY <1>1, ResolveMoves, LimitMoves, EvaluateMoves, IssueMoves, EndpointMoves, ValidateMoves
       DEF Serve, authorizeRequest, handleChallenge
  <2> QED BY <1>1, <2>1, MovedKeepsInv
<1>2. ASSUME NEW t \in Tab, Deliver(t) \/ Lose(t) \/ Proceed(t) \/ Stray(t), Observe PROVE Inv'
  BY <1>2, BrowserMoves, MovedKeepsInv
<1>3. ASSUME (\E s \in SID : Event(s) \/ WaitElapses(s) \/ Forget(s)) \/ Flood \/ Subside, Observe
      PROVE  Inv'
  BY <1>3, WorldKeepsInv
<1>4. CASE UNCHANGED vars
  BY <1>4 DEF vars, Inv, GatewayTypeOK, Sound
<1> QED BY <1>1, <1>2, <1>3, <1>4 DEF Next

-----------------------------------------------------------------------------

\* The invariant the theorems below rest on, in every reachable state.
THEOREM InvAlways == Spec => []Inv
  BY InitInv, NextInv, PTL DEF Spec

\* Type correctness; in particular no handler ever looks up the record of a session
\* the request does not have, and no challenge counts more wrong answers than allowed.
THEOREM GatewayTypesCorrect == Spec => []GatewayTypeOK
  BY InvAlways, PTL DEF Inv

\* Nobody reaches the protected handler but a principal, a validated token, or a
\* session that was admitted and unexpired at some moment of that very request.
THEOREM HandlerGuarded == Spec => []OnlyTheAdmitted
<1>1. Inv => OnlyTheAdmitted
  BY DEF Inv, Sound, OnlyTheAdmitted
<1> QED BY <1>1, InvAlways, PTL

\* A request whose session stays in the store draws on no bucket of the newcomers.
THEOREM FloodsIsolated == Spec => []Isolated
<1>1. Inv => Isolated
  BY DEF Inv, Sound, Isolated
<1> QED BY <1>1, InvAlways, PTL
=============================================================================
