------------------------ MODULE QuerySessionProofs ------------------------
(***************************************************************************)
(* Proofs about QuerySession, for every finite number of queries that      *)
(* share a Beian and all lifetimes and delays: its types, that the         *)
(* credentials of a query request belong together, and that the cached     *)
(* token is never too old. The last rests on a counting argument: there is *)
(* always a token identity that nobody holds.                              *)
(***************************************************************************)
EXTENDS QuerySession, FunctionTheorems, FiniteSetTheorems, TLAPS

----------------------------------------------------------------------------
\* The inductive invariant, part by part

\* A query holds one token at most: its captcha, its sign and its request were
\* made with the token that getToken returned to it.
StageInv ==
  \A q \in Queries :
    /\ at[q] \in {"start", "auth"} => token[q] = NoToken
    /\ at[q] = "store" => token[q] # NoToken
    /\ {image[q], sign[q], sent[q]} \subseteq {NoToken, token[q]}
    /\ at[q] \in {"match", "query", "answer"} => image[q] = token[q]
    /\ at[q] \in {"query", "answer"} => sign[q] = token[q]
    /\ at[q] = "answer" => sent[q] = token[q]

\* A token that is still to be stored is no older than its answer may take.
AgeInv == \A q \in Queries : at[q] = "store" => age[token[q]] <= MaxDelay

IInv == TypeOK /\ StageInv /\ AgeInv /\ CachedTokenIsYoung

----------------------------------------------------------------------------
\* Token identities

\* The number of queries, and of token identities, is a natural number.
LEMMA TokenRange ==
  /\ Cardinality(Queries) \in Nat
  /\ Tokens = 1..(2 * Cardinality(Queries) + 1)
  /\ IsFiniteSet(Tokens) /\ Cardinality(Tokens) = 2 * Cardinality(Queries) + 1
  /\ NoToken \notin Tokens
<1>1. Cardinality(Queries) \in Nat
  BY QueriesAssumption, FS_CardinalityType
<1>2. 2 * Cardinality(Queries) + 1 \in Nat
  BY <1>1
<1>3. IsFiniteSet(Tokens) /\ Cardinality(Tokens) = 2 * Cardinality(Queries) + 1
  BY <1>1, <1>2, FS_Interval DEF Tokens
<1> QED
  BY <1>1, <1>3 DEF Tokens, NoToken

\* The queries and the cache hold fewer tokens than there are, so that the
\* server can always issue one that nobody holds.
LEMMA FreshTokenIsFree ==
  ASSUME TypeOK, StageInv, Queries # {}
  PROVE  FreshToken \in Tokens /\ FreshToken \notin Held
<1> DEFINE own == {token[q] : q \in Queries}
<1>1. Held \subseteq own \cup {cached, NoToken}
  BY DEF Held, StageInv
<1>2. IsFiniteSet(own) /\ Cardinality(own) <= Cardinality(Queries)
  <2>1. token \in [Queries -> own]
    BY DEF TypeOK
  <2>2. token \in Surjection(Queries, own)
    BY <2>1, Fun_IsSurj
  <2> QED
    BY <2>2, QueriesAssumption, FS_Surjection
<1>3. Cardinality(Queries) \in Nat /\ Cardinality(Queries) # 0
  BY QueriesAssumption, FS_CardinalityType, FS_EmptySet
<1>4. /\ IsFiniteSet(own \cup {cached})
      /\ Cardinality(own \cup {cached}) <= Cardinality(Queries) + 1
  <2>1. Cardinality(own) \in Nat
    BY <1>2, FS_CardinalityType
  <2>2. /\ IsFiniteSet(own \cup {cached})
        /\ Cardinality(own \cup {cached}) =
             IF cached \in own THEN Cardinality(own) ELSE Cardinality(own) + 1
    BY <1>2, FS_AddElement
  <2> HIDE DEF own
  <2> QED
    BY <1>2, <1>3, <2>1, <2>2
<1>5. ~(Tokens \subseteq Held)
  <2>1. SUFFICES ASSUME Tokens \subseteq Held PROVE FALSE
    OBVIOUS
  <2>2. Tokens \subseteq own \cup {cached}
    BY <1>1, <2>1, TokenRange
  <2>3. Cardinality(Tokens) <= Cardinality(own \cup {cached})
    BY <1>4, <2>2, FS_Subset
  <2>4. Cardinality(own \cup {cached}) \in Nat
    BY <1>4, FS_CardinalityType
  <2> HIDE DEF own
  <2> QED
    BY <1>3, <1>4, <2>3, <2>4, TokenRange
<1>6. \E t \in Tokens : t \notin Held
  BY <1>5
<1> QED
  BY <1>6 DEF FreshToken

----------------------------------------------------------------------------
\* The initial states

\* Without queries on their way and with an empty cache, the invariant holds.
LEMMA InitInvariant == Init => IInv
<1> SUFFICES ASSUME Init PROVE IInv
  OBVIOUS
<1>1. 0 \in 0..MaxAge /\ 0 \in 0..Lifetime
  BY TimeAssumption DEF MaxAge
<1>2. TypeOK
  BY <1>1 DEF Init, TypeOK
<1>3. StageInv /\ AgeInv /\ CachedTokenIsYoung
  BY DEF Init, StageInv, AgeInv, CachedTokenIsYoung
<1> QED
  BY <1>2, <1>3 DEF IInv

----------------------------------------------------------------------------
\* Each part, step by step

\* Every step keeps the types.
LEMMA TypeStep == IInv /\ [Next]_vars => TypeOK'
<1> SUFFICES ASSUME IInv, [Next]_vars PROVE TypeOK'
  OBVIOUS
<1>1. /\ Lifetime \in Nat \ {0} /\ MaxDelay \in Nat /\ MaxAge = Lifetime + MaxDelay + 1
      /\ Lifetime \in 0..Lifetime /\ 0 \in 0..MaxAge
  BY TimeAssumption DEF MaxAge
<1>2. TypeOK /\ StageInv
  BY DEF IInv
<1> USE DEF TypeOK
<1>3. ASSUME NEW q \in Queries, UseCached(q) PROVE TypeOK'
  BY <1>2, <1>3 DEF UseCached
<1>4. ASSUME NEW q \in Queries, MissCache(q) PROVE TypeOK'
  BY <1>2, <1>4 DEF MissCache
<1>5. ASSUME NEW q \in Queries, Issue(q) PROVE TypeOK'
  <2>1. FreshToken \in Tokens
    BY <1>2, FreshTokenIsFree
  <2> QED
    BY <1>1, <1>2, <1>5, <2>1 DEF Issue
<1>6. ASSUME NEW q \in Queries, StoreToken(q) PROVE TypeOK'
  <2>1. token[q] # NoToken /\ token[q] \in Tokens
    BY <1>2, <1>6 DEF StoreToken, StageInv
  <2> QED
    BY <1>1, <1>2, <1>6, <2>1 DEF StoreToken
<1>7. ASSUME NEW q \in Queries, RequestImage(q) PROVE TypeOK'
  BY <1>2, <1>7 DEF RequestImage
<1>8. ASSUME NEW q \in Queries, SubmitOffset(q) PROVE TypeOK'
  BY <1>2, <1>8 DEF SubmitOffset
<1>9. ASSUME NEW q \in Queries, SendQuery(q) PROVE TypeOK'
  BY <1>2, <1>9 DEF SendQuery
<1>10. ASSUME NEW q \in Queries, Answer(q) \/ Fail(q) PROVE TypeOK'
  BY <1>2, <1>10 DEF Answer, Fail, Forget
<1>11. ASSUME NEW t \in Tokens, Drop(t) PROVE TypeOK'
  BY <1>2, <1>11 DEF Drop
<1>12. CASE Tick
  <2>1. left' \in 0..Lifetime /\ (left' > 0 => left > 0)
    BY <1>1, <1>2, <1>12 DEF Tick
  <2>2. age' \in [Tokens -> 0..MaxAge]
    BY <1>1, <1>2, <1>12 DEF Tick
  <2> QED
    BY <1>2, <1>12, <2>1, <2>2 DEF Tick
<1>13. CASE UNCHANGED vars
  BY <1>2, <1>13 DEF vars
<1> QED
  BY <1>3, <1>4, <1>5, <1>6, <1>7, <1>8, <1>9, <1>10, <1>11, <1>12, <1>13
     DEF Next, QueryStep

\* Every step keeps a query to the token it was given: no other query, and
\* nothing that happens to the cache, changes what it holds.
LEMMA StageStep == IInv /\ [Next]_vars => StageInv'
<1> SUFFICES ASSUME IInv, [Next]_vars PROVE StageInv'
  OBVIOUS
<1>1. TypeOK /\ StageInv
  BY DEF IInv
<1>2. /\ {token, image, sign, sent} \subseteq [Queries -> Tokens \cup {NoToken}]
      /\ at \in [Queries -> {"start", "auth", "store", "image", "match", "query", "answer"}]
  BY <1>1 DEF TypeOK
<1> USE DEF StageInv
<1>3. ASSUME NEW q \in Queries, UseCached(q) PROVE StageInv'
  BY <1>1, <1>2, <1>3 DEF UseCached
<1>4. ASSUME NEW q \in Queries, MissCache(q) PROVE StageInv'
  BY <1>1, <1>2, <1>4 DEF MissCache
<1>5. ASSUME NEW q \in Queries, Issue(q) PROVE StageInv'
  <2>1. FreshToken # NoToken
    BY <1>1, FreshTokenIsFree, TokenRange
  <2> QED
    BY <1>1, <1>2, <1>5, <2>1 DEF Issue
<1>6. ASSUME NEW q \in Queries, StoreToken(q) PROVE StageInv'
  BY <1>1, <1>2, <1>6 DEF StoreToken
<1>7. ASSUME NEW q \in Queries, RequestImage(q) PROVE StageInv'
  BY <1>1, <1>2, <1>7 DEF RequestImage
<1>8. ASSUME NEW q \in Queries, SubmitOffset(q) PROVE StageInv'
  BY <1>1, <1>2, <1>8 DEF SubmitOffset
<1>9. ASSUME NEW q \in Queries, SendQuery(q) PROVE StageInv'
  BY <1>1, <1>2, <1>9 DEF SendQuery
<1>10. ASSUME NEW q \in Queries, Answer(q) \/ Fail(q) PROVE StageInv'
  BY <1>1, <1>2, <1>10 DEF Answer, Fail, Forget
<1>11. CASE (\E t \in Tokens : Drop(t)) \/ Tick \/ UNCHANGED vars
  BY <1>1, <1>11 DEF Drop, Tick, vars
<1> QED
  BY <1>3, <1>4, <1>5, <1>6, <1>7, <1>8, <1>9, <1>10, <1>11 DEF Next, QueryStep

\* Every step keeps the ages of the tokens that are on their way and of the one
\* in the cache within their bounds. A tick ages both; what is stored is at most
\* MaxDelay old; and a newly issued token is not one of theirs.
LEMMA AgeStep == IInv /\ [Next]_vars => AgeInv' /\ CachedTokenIsYoung'
<1> SUFFICES ASSUME IInv, [Next]_vars PROVE AgeInv' /\ CachedTokenIsYoung'
  OBVIOUS
<1>1. /\ Lifetime \in Nat \ {0} /\ MaxDelay \in Nat /\ MaxAge = Lifetime + MaxDelay + 1
  BY TimeAssumption DEF MaxAge
<1>2. TypeOK /\ StageInv /\ AgeInv /\ CachedTokenIsYoung
  BY DEF IInv
<1>3. /\ \A q \in Queries : token[q] \in Tokens \cup {NoToken}
      /\ token \in [Queries -> Tokens \cup {NoToken}]
      /\ at \in [Queries -> {"start", "auth", "store", "image", "match", "query", "answer"}]
      /\ left \in 0..Lifetime /\ age \in [Tokens -> 0..MaxAge]
      /\ left > 0 => cached \in Tokens
  BY <1>2 DEF TypeOK
<1>4. \A q \in Queries : at[q] = "store" => token[q] \in Tokens
  BY <1>2, <1>3 DEF StageInv
<1> USE DEF AgeInv, CachedTokenIsYoung
<1>5. ASSUME UNCHANGED <<cached, left, age>>,
             \A q \in Queries : at'[q] = "store" => at[q] = "store" /\ token'[q] = token[q]
      PROVE  AgeInv' /\ CachedTokenIsYoung'
  BY <1>2, <1>5
<1>6. ASSUME NEW q \in Queries, Issue(q) PROVE AgeInv' /\ CachedTokenIsYoung'
  <2>1. FreshToken \in Tokens /\ FreshToken \notin Held
    BY <1>2, FreshTokenIsFree
  <2>2. FreshToken # cached /\ \A r \in Queries : token[r] # FreshToken
    BY <2>1 DEF Held
  <2>3. age'[FreshToken] = 0 /\ \A t \in Tokens \ {FreshToken} : age'[t] = age[t]
    BY <1>3, <1>6, <2>1 DEF Issue
  <2>4. token'[q] = FreshToken /\ \A r \in Queries \ {q} : token'[r] = token[r] /\ at'[r] = at[r]
    BY <1>3, <1>6 DEF Issue
  <2>5. cached' = cached /\ left' = left
    BY <1>6 DEF Issue
  <2>6. AgeInv'
    BY <1>1, <1>2, <1>4, <2>2, <2>3, <2>4
  <2>7. CachedTokenIsYoung'
    BY <1>2, <1>3, <2>2, <2>3, <2>5
  <2> QED
    BY <2>6, <2>7
<1>7. ASSUME NEW q \in Queries, StoreToken(q) PROVE AgeInv' /\ CachedTokenIsYoung'
  <2>1. AgeInv'
    BY <1>2, <1>3, <1>7 DEF StoreToken
  <2>2. age[token[q]] <= MaxDelay /\ age[token[q]] \in 0..MaxAge
    BY <1>2, <1>3, <1>4, <1>7 DEF StoreToken
  <2>3. CachedTokenIsYoung'
    BY <1>1, <1>7, <2>2 DEF StoreToken
  <2> QED
    BY <2>1, <2>3
<1>8. CASE Tick
  <2>1. \A t \in Tokens : age'[t] \in {age[t], age[t] + 1}
    BY <1>3, <1>8 DEF Tick
  <2>2. UNCHANGED <<at, token, cached>> /\ (left' > 0 => left > 0 /\ left' = left - 1)
    BY <1>3, <1>8 DEF Tick
  <2>3. AgeInv'
    <3>1. ASSUME NEW q \in Queries, at[q] = "store" PROVE age'[token[q]] <= MaxDelay
      <4>1. age[token[q]] < MaxDelay /\ token[q] \in Tokens /\ age[token[q]] \in 0..MaxAge
        BY <1>3, <1>4, <1>8, <3>1 DEF Tick
      <4> QED
        BY <1>1, <2>1, <4>1
    <3> QED
      BY <2>2, <3>1
  <2>4. CachedTokenIsYoung'
    <3>1. ASSUME left' > 0 PROVE age'[cached] + left' <= Lifetime + MaxDelay
      <4>1. cached \in Tokens /\ age[cached] \in 0..MaxAge /\ left > 0 /\ left' = left - 1
        BY <1>3, <2>2, <3>1
      <4>2. age[cached] + left <= Lifetime + MaxDelay
        BY <1>2, <4>1
      <4> QED
        BY <1>1, <1>3, <2>1, <4>1, <4>2
    <3> QED
      BY <2>2, <3>1
  <2> QED
    BY <2>3, <2>4
<1>9. ASSUME NEW q \in Queries,
             \/ UseCached(q) \/ MissCache(q) \/ RequestImage(q) \/ SubmitOffset(q)
             \/ SendQuery(q) \/ Answer(q) \/ Fail(q)
      PROVE  AgeInv' /\ CachedTokenIsYoung'
  <2>1. UNCHANGED <<cached, left, age>>
    BY <1>9 DEF UseCached, MissCache, RequestImage, SubmitOffset, SendQuery, Answer, Fail
  <2>2. \A r \in Queries : at'[r] = "store" => at[r] = "store" /\ token'[r] = token[r]
    BY <1>3, <1>9
       DEF UseCached, MissCache, RequestImage, SubmitOffset, SendQuery, Answer, Fail, Forget
  <2> QED
    BY <1>5, <2>1, <2>2
<1>10. CASE (\E t \in Tokens : Drop(t)) \/ UNCHANGED vars
  BY <1>5, <1>10 DEF Drop, vars
<1> QED
  BY <1>6, <1>7, <1>8, <1>9, <1>10 DEF Next, QueryStep

----------------------------------------------------------------------------
\* The theorems

\* The inductive invariant holds of every behaviour.
THEOREM Invariance == Spec => []IInv
<1>1. Init => IInv
  BY InitInvariant
<1>2. IInv /\ [Next]_vars => IInv'
  BY TypeStep, StageStep, AgeStep DEF IInv
<1> QED
  BY <1>1, <1>2, PTL DEF Spec

\* Stages, tokens and times keep their types, and there is always a token that
\* nobody holds for the server to issue.
THEOREM TypeCorrectness == Spec => []TypeOK
<1>1. IInv => TypeOK
  BY DEF IInv
<1> QED
  BY <1>1, Invariance, PTL

\* The token, the captcha and the sign in a query request belong together,
\* whatever other queries store in the cache between its four requests.
THEOREM CredentialsStayTogether == Spec => []CredentialsMatch
<1>1. IInv => CredentialsMatch
  BY DEF IInv, StageInv, CredentialsMatch
<1> QED
  BY <1>1, Invariance, PTL

\* No token is taken from the cache that was issued longer ago than its lifetime
\* and the delay of its answer, in whatever order concurrent answers are stored.
THEOREM CacheStaysYoung == Spec => []CachedTokenIsYoung
<1>1. IInv => CachedTokenIsYoung
  BY DEF IInv
<1> QED
  BY <1>1, Invariance, PTL

============================================================================
