---------------------------- MODULE QuerySession ----------------------------
(***************************************************************************)
(* Queries that share one Beian (internal/beian): the token cached behind  *)
(* tokenMu (token.go), the captcha exchange (captcha.go) and the query     *)
(* itself (getBeian and getBlackBeian of beian.go). A query makes up to    *)
(* four requests, each built from the answers to those before it; other    *)
(* queries run between any two of them. The MIIT server is modelled by     *)
(* what the code expects of it: it issues a token, ties a captcha to the   *)
(* token it was asked for with and a sign to the captcha it was given for, *)
(* and may drop a token before its time.                                   *)
(*                                                                         *)
(* Times are relative to the present, in ticks. Token identities are used  *)
(* again once nobody holds them, so queries repeat without a bound.        *)
(***************************************************************************)
EXTENDS Naturals, FiniteSets

CONSTANTS Queries,   \* goroutines that call Query or QueryBlacklist
          Lifetime,  \* the "expire" of an answer of the auth service
          MaxDelay   \* longest time from the issue of a token to its storing

ASSUME QueriesAssumption == IsFiniteSet(Queries)
ASSUME TimeAssumption == Lifetime \in Nat \ {0} /\ MaxDelay \in Nat

Tokens == 1..(2 * Cardinality(Queries) + 1)
NoToken == 0
MaxAge == Lifetime + MaxDelay + 1  \* ages above it are not told apart

VARIABLES
  at,      \* the stage of each query
  token,   \* its token: baseHeader["token"], later authContext.token
  image,   \* the token its captcha was requested with
  sign,    \* the token the captcha was solved under
  sent,    \* the token in the headers of its query request
  cached,  \* Beian.token
  left,    \* ticks until Beian.tokenExpire
  age,     \* of a token: ticks since the server issued it
  dropped  \* tokens the server no longer honours

vars == <<at, token, image, sign, sent, cached, left, age, dropped>>

Init ==
  /\ at = [q \in Queries |-> "start"]
  /\ token = [q \in Queries |-> NoToken]
  /\ image = [q \in Queries |-> NoToken]
  /\ sign = [q \in Queries |-> NoToken]
  /\ sent = [q \in Queries |-> NoToken]
  /\ cached = NoToken /\ left = 0
  /\ age = [t \in Tokens |-> 0]
  /\ dropped = {}

----------------------------------------------------------------------------
\* getToken

\* Faulty variant: every use of the cached token renews its expiry.
UseCachedSliding(q) ==
  /\ at[q] = "start" /\ left > 0
  /\ token' = [token EXCEPT ![q] = cached]
  /\ left' = Lifetime
  /\ at' = [at EXCEPT ![q] = "image"]
  /\ UNCHANGED <<image, sign, sent, cached, age, dropped>>

\* Under the read lock: the cached token has not expired by the local clock.
UseCached(q) ==
  /\ at[q] = "start" /\ left > 0
  /\ token' = [token EXCEPT ![q] = cached]
  /\ at' = [at EXCEPT ![q] = "image"]
  /\ UNCHANGED <<image, sign, sent, cached, left, age, dropped>>

\* The lock is released before the request: others miss the cache meanwhile.
MissCache(q) ==
  /\ at[q] = "start" /\ left = 0
  /\ at' = [at EXCEPT ![q] = "auth"]
  /\ UNCHANGED <<token, image, sign, sent, cached, left, age, dropped>>

Held == {cached} \cup UNION {{token[q], image[q], sign[q], sent[q]} : q \in Queries}
FreshToken == CHOOSE t \in Tokens : t \notin Held

\* The server issues a token; its answer is on the way to q.
Issue(q) ==
  /\ at[q] = "auth"
  /\ token' = [token EXCEPT ![q] = FreshToken]
  /\ age' = [age EXCEPT ![FreshToken] = 0]
  /\ dropped' = dropped \ {FreshToken}
  /\ at' = [at EXCEPT ![q] = "store"]
  /\ UNCHANGED <<image, sign, sent, cached, left>>

\* Faulty variant: the expiry is stored, the token is not.
StoreExpiry(q) ==
  /\ at[q] = "store"
  /\ left' = Lifetime
  /\ at' = [at EXCEPT ![q] = "image"]
  /\ UNCHANGED <<token, image, sign, sent, cached, age, dropped>>

\* Under the write lock, whatever another query has stored since: the expiry is
\* counted from now, not from when the server issued the token.
StoreToken(q) ==
  /\ at[q] = "store"
  /\ cached' = token[q]
  /\ left' = Lifetime
  /\ at' = [at EXCEPT ![q] = "image"]
  /\ UNCHANGED <<token, image, sign, sent, age, dropped>>

----------------------------------------------------------------------------
\* checkImg, getBeian and getBlackBeian

\* Requests go out with the token in the headers; a dropped one is rejected.
Honoured(t) == t \notin dropped

RequestImage(q) ==
  /\ at[q] = "image" /\ Honoured(token[q])
  /\ image' = [image EXCEPT ![q] = token[q]]
  /\ at' = [at EXCEPT ![q] = "match"]
  /\ UNCHANGED <<token, sign, sent, cached, left, age, dropped>>

\* The slider is matched and its offset submitted for the captcha's uuid.
SubmitOffset(q) ==
  /\ at[q] = "match" /\ Honoured(token[q])
  /\ sign' = [sign EXCEPT ![q] = image[q]]
  /\ at' = [at EXCEPT ![q] = "query"]
  /\ UNCHANGED <<token, image, sent, cached, left, age, dropped>>

\* Faulty variant: the headers take the token from the cache again.
SendQueryCached(q) ==
  /\ at[q] = "query"
  /\ sent' = [sent EXCEPT ![q] = cached]
  /\ at' = [at EXCEPT ![q] = "answer"]
  /\ UNCHANGED <<token, image, sign, cached, left, age, dropped>>

\* uuid, token and sign all come from the CaptchaResult.
SendQuery(q) ==
  /\ at[q] = "query"
  /\ sent' = [sent EXCEPT ![q] = token[q]]
  /\ at' = [at EXCEPT ![q] = "answer"]
  /\ UNCHANGED <<token, image, sign, cached, left, age, dropped>>

Forget(q) ==
  /\ token' = [token EXCEPT ![q] = NoToken]
  /\ image' = [image EXCEPT ![q] = NoToken]
  /\ sign' = [sign EXCEPT ![q] = NoToken]
  /\ sent' = [sent EXCEPT ![q] = NoToken]

Answer(q) ==
  /\ at[q] = "answer" /\ Honoured(sent[q])
  /\ at' = [at EXCEPT ![q] = "start"]
  /\ Forget(q)
  /\ UNCHANGED <<cached, left, age, dropped>>

\* A request fails or times out, its answer cannot be used, the slider does not
\* match, or the context is done. The query returns the error and its caller
\* goes on with the next one; the cached token stays as it is.
Fail(q) ==
  /\ at[q] # "start"
  /\ at' = [at EXCEPT ![q] = "start"]
  /\ Forget(q)
  /\ UNCHANGED <<cached, left, age, dropped>>

----------------------------------------------------------------------------
\* The server drops a token before its time.
Drop(t) ==
  /\ t \in Held \ {NoToken} /\ t \notin dropped
  /\ dropped' = dropped \cup {t}
  /\ UNCHANGED <<at, token, image, sign, sent, cached, left, age>>

\* The timeout of the HTTP client bounds how long an issued token is on its way.
Tick ==
  /\ \A q \in Queries : at[q] = "store" => age[token[q]] < MaxDelay
  /\ left' = IF left = 0 THEN 0 ELSE left - 1
  /\ age' = [t \in Tokens |-> IF t \in Held /\ age[t] < MaxAge THEN age[t] + 1 ELSE age[t]]
  /\ UNCHANGED <<at, token, image, sign, sent, cached, dropped>>

QueryStep(q) ==
  \/ UseCached(q) \/ MissCache(q) \/ Issue(q) \/ StoreToken(q) \/ RequestImage(q)
  \/ SubmitOffset(q) \/ SendQuery(q) \/ Answer(q) \/ Fail(q)

Next ==
  \/ \E q \in Queries : QueryStep(q)
  \/ \E t \in Tokens : Drop(t)
  \/ Tick

Spec == Init /\ [][Next]_vars

\* Time passes, and no request outlasts the client's timeout.
FairSpec == Spec /\ WF_vars(Tick) /\ \A q \in Queries : WF_vars(QueryStep(q))

----------------------------------------------------------------------------
\* Correctness

\* The type invariant.
TypeOK ==
  /\ at \in [Queries -> {"start", "auth", "store", "image", "match", "query", "answer"}]
  /\ {token, image, sign, sent} \subseteq [Queries -> Tokens \cup {NoToken}]
  /\ cached \in Tokens \cup {NoToken}
  /\ left \in 0..Lifetime
  /\ left > 0 => cached # NoToken
  /\ age \in [Tokens -> 0..MaxAge]
  /\ dropped \subseteq Tokens

\* The token, the captcha and the sign of a query request belong together,
\* however often other queries have replaced the cached token meanwhile.
CredentialsMatch ==
  \A q \in Queries : at[q] = "answer" => sent[q] = sign[q] /\ sign[q] = image[q]

\* A token is never taken from the cache for longer than its lifetime and the
\* time its answer was under way, also when the answers of concurrent auth
\* requests are stored in another order than the tokens were issued in.
CachedTokenIsYoung ==
  left > 0 => age[cached] + left <= Lifetime + MaxDelay

\* A token the server has dropped is not used for ever: although no error takes
\* it out of the cache, it expires there or is replaced.
DroppedTokenGoes == []<>(left = 0 \/ cached \notin dropped)

============================================================================
