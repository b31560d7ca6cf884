---------------------------- MODULE EgressProofs ----------------------------
(***************************************************************************)
(* Proofs about Egress, for every number of queries and of local addresses *)
(* and whatever the layers say: its types with the range of the settings,  *)
(* that the local addresses take turns, that a query is bound to one of    *)
(* them exactly when no proxy was asked for, and when the environment      *)
(* overrides the other layers.                                             *)
(***************************************************************************)
EXTENDS Egress, TLAPS

----------------------------------------------------------------------------
\* The inductive invariant, part by part

\* Nothing has happened before the settings are there, and from then on they are
\* what loadConfig made of the layers.
StartInv ==
  /\ layers \in [readable : BOOLEAN, file : Files, env : Environments]
  /\ cfg \in [Keys -> Int]
  /\ \A k \in Numbers : cfg[k] > 0
  /\ phase \in {"load", "ready", "failed"}
  /\ phase = "ready" => cfg = LoadConfig(layers.readable, layers.file, layers.env)
  /\ phase # "ready" =>
       cfg = DefaultConfig /\ \A q \in Queries : query[q] = Idle /\ route[q] = NoRoute

\* The index tells which addresses have had their turn in this round.
TurnInv ==
  /\ index \in 0..LocalAddresses
  /\ uses = [a \in 1..Locals |-> IF a <= index /\ index < Locals THEN 1 ELSE 0]

\* A query's proxy follows from what was asked for and from the settings, and its
\* last request went the way they say.
QueryOK(q) ==
  /\ query[q].asked # None => query[q].proxy # None
  /\ query[q].asked = None /\ LocalAddresses > 0 => query[q].proxy = None
  /\ route[q].via = "local" => query[q].asked = None
  /\ route[q].via = "direct" /\ LocalAddresses > 0 => query[q].asked # None

RouteInv ==
  /\ query \in [Queries -> [at : {"idle", "run"}, asked : {"caller", None},
                            proxy : {"caller", "tunnel", "pool", None}]]
  /\ route \in [Queries -> [via : {"local", "direct", None}, addr : 0..Locals]]
  /\ \A q \in Queries : QueryOK(q)

IInv == StartInv /\ TurnInv /\ RouteInv

----------------------------------------------------------------------------
\* The settings

\* Every default is a number, and those of Numbers are positive.
LEMMA DefaultsArePositive ==
  /\ DefaultConfig \in [Keys -> Int]
  /\ \A k \in Numbers : DefaultConfig[k] > 0
<1>1. DefaultConfig \in [Keys -> Int]
  BY DEF DefaultConfig
<1>2. \A k \in Numbers : DefaultConfig[k] > 0
  BY DEF DefaultConfig, Keys, Numbers
<1> QED
  BY <1>1, <1>2

\* Validate makes every number positive, whatever it was.
LEMMA ValidatedIsPositive ==
  ASSUME NEW c \in [Keys -> Int]
  PROVE  /\ Validate(c) \in [Keys -> Int]
         /\ \A k \in Numbers : Validate(c)[k] > 0
<1>1. Numbers \subseteq Keys
  BY DEF Keys
<1>2. Validate(c) = [k \in Keys |-> IF k \in Numbers /\ c[k] <= 0 THEN DefaultConfig[k] ELSE c[k]]
  BY DEF Validate
<1>3. \A k \in Keys : c[k] \in Int /\ DefaultConfig[k] \in Int
  BY DefaultsArePositive
<1>4. \A k \in Numbers : Validate(c)[k] = IF c[k] <= 0 THEN DefaultConfig[k] ELSE c[k]
  BY <1>1, <1>2
<1>5. \A k \in Numbers : Validate(c)[k] > 0
  <2> SUFFICES ASSUME NEW k \in Numbers PROVE Validate(c)[k] > 0
    OBVIOUS
  <2>1. c[k] \in Int /\ DefaultConfig[k] > 0
    BY <1>1, <1>3, DefaultsArePositive
  <2> QED
    BY <1>4, <2>1
<1>6. Validate(c) \in [Keys -> Int]
  BY <1>2, <1>3
<1> QED
  BY <1>5, <1>6

LEMMA UnmarshalTyping ==
  ASSUME NEW file \in Files, NEW env \in Environments
  PROVE  Unmarshal(file, env) \in [Keys -> Int]
<1>1. \A k \in Keys : IsGiven(env, BoundName(k)) => env[BoundName(k)].n \in Int
  BY EnvironmentsAssumption DEF IsGiven
<1>2. \A k \in Keys : (k \in DOMAIN file => file[k] \in Int) /\ DefaultConfig[k] \in Int
  BY FilesAssumption, DefaultsArePositive
<1> QED
  BY <1>1, <1>2 DEF Unmarshal

\* Whatever file and environment say, the settings in effect are in range.
LEMMA LoadedIsPositive ==
  ASSUME NEW readable \in BOOLEAN, NEW file \in Files, NEW env \in Environments
  PROVE  /\ LoadConfig(readable, file, env) \in [Keys -> Int]
         /\ \A k \in Numbers : LoadConfig(readable, file, env)[k] > 0
<1>1. CASE readable
  BY <1>1, UnmarshalTyping, ValidatedIsPositive DEF LoadConfig
<1>2. CASE ~readable
  BY <1>2, DefaultsArePositive, ValidatedIsPositive DEF LoadConfig
<1> QED
  BY <1>1, <1>2

----------------------------------------------------------------------------
\* The turns of the local addresses

LEMMA LocalTyping == LocalAddresses \in {0, Locals} /\ LocalAddresses \in Nat
BY LocalsAssumption DEF LocalAddresses

\* The least number of uses is the one that some address has and none is below.
LEMMA LeastIsUnique ==
  ASSUME NEW raw \in [1..Locals -> Nat], NEW m \in 0..(MaxSpread + 1),
         NEW b \in 1..Locals, raw[b] = m, \A a \in 1..Locals : raw[a] >= m
  PROVE  m = CHOOSE n \in 0..(MaxSpread + 1) :
               (\E a \in 1..Locals : raw[a] = n) /\ \A a \in 1..Locals : raw[a] >= n
<1> DEFINE Least(n) == (\E a \in 1..Locals : raw[a] = n) /\ \A a \in 1..Locals : raw[a] >= n
<1>1. Least(m)
  OBVIOUS
<1>2. \A n \in 0..(MaxSpread + 1) : Least(n) => n = m
  BY SpreadAssumption
<1> HIDE DEF Least
<1>3. m = CHOOSE n \in 0..(MaxSpread + 1) : Least(n)
  BY <1>1, <1>2
<1> QED
  BY <1>3 DEF Least

\* A bound request takes the turn of the address the index points at, and the last
\* one of a round makes all of them even again.
LEMMA TurnStep ==
  ASSUME LocalAddresses = Locals, Locals > 0, TurnInv,
         index' = NextIndex + 1, uses' = Counted(NextIndex + 1), cfg' = cfg
  PROVE  TurnInv' /\ NextIndex + 1 \in 1..Locals
<1> DEFINE a == NextIndex + 1
           raw == [uses EXCEPT ![a] = @ + 1]
           least == CHOOSE n \in 0..(MaxSpread + 1) :
                      (\E b \in 1..Locals : raw[b] = n) /\ \A b \in 1..Locals : raw[b] >= n
<1>1. Locals \in Nat /\ index \in 0..Locals
  BY LocalsAssumption DEF TurnInv
<1>2. NextIndex = (IF index = Locals THEN 0 ELSE index)
  BY <1>1 DEF NextIndex
<1>3. a \in 1..Locals
  BY <1>1, <1>2
<1>4. uses' = [b \in 1..Locals |-> IF raw[b] - least > MaxSpread THEN MaxSpread ELSE raw[b] - least]
  BY DEF Counted
<1>5. raw = [b \in 1..Locals |-> IF b <= a THEN 1 ELSE 0]
  BY <1>1, <1>2, <1>3 DEF TurnInv
<1> HIDE DEF a, raw
<1>6. raw \in [1..Locals -> Nat]
  BY <1>1, <1>3, <1>5
<1>7. MaxSpread \in Nat /\ MaxSpread >= 2
  BY SpreadAssumption
<1>8. LocalAddresses' = LocalAddresses
  BY DEF LocalAddresses
<1>9. CASE a = Locals
  <2>1. \A b \in 1..Locals : raw[b] = 1
    BY <1>1, <1>5, <1>9
  <2>2. least = 1
    BY <1>3, <1>6, <1>7, <2>1, LeastIsUnique
  <2> HIDE DEF least
  <2>3. uses' = [b \in 1..Locals |-> 0]
    <3>1. \A b \in 1..Locals : ~(raw[b] - least > MaxSpread) /\ raw[b] - least = 0
      BY <1>7, <2>1, <2>2
    <3> QED
      BY <1>4, <3>1, Zenon
  <2>4. index' = Locals
    BY <1>9 DEF a
  <2> QED
    BY <1>1, <1>3, <1>8, <2>3, <2>4, <1>9 DEF TurnInv, a
<1>10. CASE a < Locals
  <2>1. Locals \in 1..Locals /\ raw[Locals] = 0
    BY <1>1, <1>3, <1>5, <1>10
  <2>2. \A b \in 1..Locals : raw[b] >= 0
    BY <1>6
  <2>3. least = 0
    BY <1>6, <1>7, <2>1, <2>2, LeastIsUnique
  <2> HIDE DEF least
  <2>4. uses' = [b \in 1..Locals |-> raw[b]]
    <3>1. \A b \in 1..Locals : raw[b] \in {0, 1}
      BY <1>1, <1>3, <1>5
    <3>2. \A b \in 1..Locals : ~(raw[b] - least > MaxSpread) /\ raw[b] - least = raw[b]
      BY <1>7, <2>3, <3>1
    <3> QED
      BY <1>4, <3>2, Zenon
  <2>5. index' = a
    BY DEF a
  <2>6. uses' = [b \in 1..Locals |-> IF b <= index' /\ index' < Locals THEN 1 ELSE 0]
    BY <1>1, <1>3, <1>5, <1>10, <2>4, <2>5
  <2> QED
    BY <1>1, <1>3, <1>8, <2>5, <2>6 DEF TurnInv, a
<1> QED
  BY <1>1, <1>3, <1>9, <1>10

----------------------------------------------------------------------------
\* The inductive invariant

LEMMA InitInv == Init => IInv
<1> SUFFICES ASSUME Init PROVE IInv
  OBVIOUS
<1>1. StartInv
  BY DefaultsArePositive DEF Init, StartInv
<1>2. LocalAddresses = 0
  BY DEF Init, LocalAddresses, DefaultConfig, Keys, Choices
<1>3. TurnInv
  BY <1>2, LocalsAssumption DEF Init, TurnInv
<1>4. RouteInv
  BY <1>2, LocalsAssumption DEF Init, RouteInv, QueryOK, Idle, NoRoute, None
<1> QED
  BY <1>1, <1>3, <1>4 DEF IInv

\* The settings change before anything has happened only.
LEMMA LoadStep ==
  ASSUME IInv, Load
  PROVE  IInv'
<1>1. /\ phase = "load" /\ phase' = "ready"
      /\ cfg' = LoadConfig(layers.readable, layers.file, layers.env)
      /\ UNCHANGED <<layers, index, query, route, uses>>
  BY DEF Load
<1>2. layers.readable \in BOOLEAN /\ layers.file \in Files /\ layers.env \in Environments
  BY DEF IInv, StartInv
<1>3. cfg' \in [Keys -> Int] /\ \A k \in Numbers : cfg'[k] > 0
  BY <1>1, <1>2, LoadedIsPositive
<1>4. StartInv'
  BY <1>1, <1>3 DEF IInv, StartInv
<1>5. cfg = DefaultConfig /\ \A q \in Queries : query[q] = Idle /\ route[q] = NoRoute
  BY <1>1 DEF IInv, StartInv
<1>6. LocalAddresses = 0
  BY <1>5 DEF LocalAddresses, DefaultConfig, Keys, Choices
<1>7. index = 0 /\ LocalAddresses' \in Nat
  BY <1>6, LocalsAssumption DEF IInv, TurnInv, LocalAddresses
<1>8. TurnInv'
  BY <1>1, <1>7, LocalsAssumption DEF IInv, TurnInv
<1>9. RouteInv'
  BY <1>1, <1>5 DEF IInv, RouteInv, QueryOK, Idle, NoRoute, None
<1> QED
  BY <1>4, <1>8, <1>9 DEF IInv

\* A step of one query, once the settings are there.
LEMMA QueryStep ==
  ASSUME IInv, phase = "ready", NEW q \in Queries,
         NEW run \in [at : {"idle", "run"}, asked : {"caller", None},
                      proxy : {"caller", "tunnel", "pool", None}],
         NEW way \in [via : {"local", "direct", None}, addr : 0..Locals],
         query' = [query EXCEPT ![q] = run], route' = [route EXCEPT ![q] = way],
         UNCHANGED <<layers, phase, cfg>>, TurnInv',
         run.asked # None => run.proxy # None,
         run.asked = None /\ LocalAddresses > 0 => run.proxy = None,
         way.via = "local" => run.asked = None,
         way.via = "direct" /\ LocalAddresses > 0 => run.asked # None
  PROVE  IInv'
<1>1. StartInv'
  BY DEF IInv, StartInv
<1>2. LocalAddresses' = LocalAddresses
  BY DEF LocalAddresses
<1>3. query'[q] = run /\ route'[q] = way
  BY DEF IInv, RouteInv
<1>4. \A p \in Queries \ {q} : query'[p] = query[p] /\ route'[p] = route[p]
  BY DEF IInv, RouteInv
<1>5. QueryOK(q)'
  BY <1>2, <1>3 DEF QueryOK
<1>6. \A p \in Queries \ {q} : QueryOK(p)'
  BY <1>2, <1>4 DEF QueryOK, IInv, RouteInv
<1>7. RouteInv'
  BY <1>5, <1>6 DEF IInv, RouteInv
<1> QED
  BY <1>1, <1>7 DEF IInv

LEMMA BeginStep ==
  ASSUME IInv, NEW q \in Queries, Begin(q)
  PROVE  IInv'
<1>1. PICK asked \in {"caller", None} : \E p \in Resolved(asked) :
        query' = [query EXCEPT ![q] = [at |-> "run", asked |-> asked, proxy |-> p]]
  BY DEF Begin
<1>2. PICK p \in Resolved(asked) :
        query' = [query EXCEPT ![q] = [at |-> "run", asked |-> asked, proxy |-> p]]
  BY <1>1
<1> DEFINE run == [at |-> "run", asked |-> asked, proxy |-> p]
<1>3. /\ p \in {"caller", "tunnel", "pool", None}
      /\ asked # None => p # None
      /\ asked = None /\ LocalAddresses > 0 => p = None
  BY <1>2 DEF Resolved, None
<1>4. /\ run \in [at : {"idle", "run"}, asked : {"caller", None},
                  proxy : {"caller", "tunnel", "pool", None}]
      /\ run.asked = asked /\ run.proxy = p
  BY <1>3
<1>5. /\ NoRoute \in [via : {"local", "direct", None}, addr : 0..Locals]
      /\ NoRoute.via # "local" /\ NoRoute.via # "direct"
  BY LocalsAssumption DEF NoRoute, None
<1>6. phase = "ready" /\ route' = [route EXCEPT ![q] = NoRoute] /\ UNCHANGED <<layers, phase, cfg, index, uses>>
  BY DEF Begin
<1>7. TurnInv'
  BY <1>6 DEF IInv, TurnInv, LocalAddresses
<1> HIDE DEF run
<1>8. query' = [query EXCEPT ![q] = run]
  BY <1>2 DEF run
<1> QED
  BY <1>3, <1>4, <1>5, <1>6, <1>7, <1>8, QueryStep

LEMMA EndStep ==
  ASSUME IInv, NEW q \in Queries, End(q)
  PROVE  IInv'
<1>1. /\ query[q] # Idle
      /\ query' = [query EXCEPT ![q] = Idle] /\ route' = [route EXCEPT ![q] = NoRoute]
      /\ UNCHANGED <<layers, phase, cfg, index, uses>>
  BY DEF End
<1>2. phase = "ready"
  BY <1>1 DEF IInv, StartInv
<1>3. /\ NoRoute \in [via : {"local", "direct", None}, addr : 0..Locals]
      /\ NoRoute.via # "local" /\ NoRoute.via # "direct"
  BY LocalsAssumption DEF NoRoute, None
<1>4. /\ Idle \in [at : {"idle", "run"}, asked : {"caller", None},
                   proxy : {"caller", "tunnel", "pool", None}]
      /\ Idle.asked = None /\ Idle.proxy = None
  BY DEF Idle
<1>5. TurnInv'
  BY <1>1 DEF IInv, TurnInv, LocalAddresses
<1> QED
  BY <1>1, <1>2, <1>3, <1>4, <1>5, QueryStep

\* A request leaves the query's proxy as it is.
LEMMA PostTyping ==
  ASSUME IInv, NEW q \in Queries, query[q].at = "run"
  PROVE  /\ phase = "ready"
         /\ query = [query EXCEPT ![q] = query[q]]
         /\ query[q] \in [at : {"idle", "run"}, asked : {"caller", None},
                          proxy : {"caller", "tunnel", "pool", None}]
         /\ QueryOK(q)
<1>1. query[q] # Idle
  BY DEF Idle
<1>2. phase = "ready"
  BY <1>1 DEF IInv, StartInv
<1> QED
  BY <1>2 DEF IInv, RouteInv

LEMMA PostBoundStep ==
  ASSUME IInv, NEW q \in Queries, PostBound(q)
  PROVE  IInv'
<1> DEFINE way == [via |-> "local", addr |-> NextIndex + 1]
<1>1. /\ query[q].at = "run" /\ query[q].proxy = None /\ LocalAddresses > 0
      /\ index' = NextIndex + 1 /\ uses' = Counted(NextIndex + 1)
      /\ route' = [route EXCEPT ![q] = way]
      /\ UNCHANGED <<layers, phase, cfg, query>>
  BY DEF PostBound
<1>2. LocalAddresses = Locals /\ Locals > 0
  BY <1>1, LocalTyping
<1>3. TurnInv' /\ NextIndex + 1 \in 1..Locals
  BY <1>1, <1>2, TurnStep DEF IInv
<1>4. way \in [via : {"local", "direct", None}, addr : 0..Locals] /\ way.via = "local"
  BY <1>3, LocalsAssumption
<1> HIDE DEF way
<1>5. /\ phase = "ready" /\ query = [query EXCEPT ![q] = query[q]]
      /\ query[q] \in [at : {"idle", "run"}, asked : {"caller", None},
                       proxy : {"caller", "tunnel", "pool", None}]
      /\ QueryOK(q)
  BY <1>1, PostTyping
<1>6. query[q].asked = None
  BY <1>1, <1>5 DEF QueryOK
<1> QED
  BY <1>1, <1>3, <1>4, <1>5, <1>6, QueryStep

LEMMA PostSharedStep ==
  ASSUME IInv, NEW q \in Queries, PostShared(q)
  PROVE  IInv'
<1> DEFINE way == [via |-> "direct", addr |-> 0]
<1>1. /\ query[q].at = "run"
      /\ query[q].proxy # None \/ LocalAddresses = 0
      /\ route' = [route EXCEPT ![q] = way]
      /\ UNCHANGED <<layers, phase, cfg, index, query, uses>>
  BY DEF PostShared
<1>2. TurnInv'
  BY <1>1 DEF IInv, TurnInv, LocalAddresses
<1>3. way \in [via : {"local", "direct", None}, addr : 0..Locals] /\ way.via = "direct"
  BY LocalsAssumption
<1> HIDE DEF way
<1>4. /\ phase = "ready" /\ query = [query EXCEPT ![q] = query[q]]
      /\ query[q] \in [at : {"idle", "run"}, asked : {"caller", None},
                       proxy : {"caller", "tunnel", "pool", None}]
      /\ QueryOK(q)
  BY <1>1, PostTyping
<1>5. LocalAddresses > 0 => query[q].asked # None
  BY <1>1, <1>4 DEF QueryOK
<1>6. query' = [query EXCEPT ![q] = query[q]]
  BY <1>1, <1>4
<1>7. query[q].asked # None => query[q].proxy # None
  BY <1>4 DEF QueryOK
<1>8. query[q].asked = None /\ LocalAddresses > 0 => query[q].proxy = None
  BY <1>5
<1> QED
  BY <1>1, <1>2, <1>3, <1>4, <1>5, <1>6, <1>7, <1>8, QueryStep

LEMMA NextInv == IInv /\ [Next]_vars => IInv'
<1> SUFFICES ASSUME IInv, [Next]_vars PROVE IInv'
  OBVIOUS
<1>1. CASE Load
  BY <1>1, LoadStep
<1>2. CASE LoadFails
  <2>1. StartInv'
    BY <1>2 DEF IInv, StartInv, LoadFails
  <2>2. TurnInv' /\ RouteInv'
    BY <1>2 DEF IInv, TurnInv, RouteInv, QueryOK, LocalAddresses, LoadFails
  <2> QED
    BY <2>1, <2>2 DEF IInv
<1>3. ASSUME NEW q \in Queries, Begin(q) \/ End(q) \/ PostBound(q) \/ PostShared(q)
      PROVE  IInv'
  BY <1>3, BeginStep, EndStep, PostBoundStep, PostSharedStep
<1>4. CASE Stopped \/ UNCHANGED vars
  BY <1>4 DEF IInv, StartInv, TurnInv, RouteInv, QueryOK, LocalAddresses, Stopped, vars
<1> QED
  BY <1>1, <1>2, <1>3, <1>4 DEF Next

----------------------------------------------------------------------------
\* The theorems

THEOREM Invariance == Spec => []IInv
  BY InitInv, NextInv, PTL DEF Spec

\* The types hold. Of the settings they say what NewService, the limiters, the
\* semaphores and the pool rely on: whatever the layers say, each number is positive.
THEOREM TypeCorrectness == Spec => []TypeOK
<1>1. IInv => TypeOK
  <2> SUFFICES ASSUME IInv PROVE TypeOK
    OBVIOUS
  <2>1. \A k \in Numbers : cfg[k] \in Nat \ {0}
    <3>1. Numbers \subseteq Keys
      BY DEF Keys
    <3>2. \A k \in Keys : cfg[k] \in Int
      BY DEF IInv, StartInv
    <3>3. \A k \in Numbers : cfg[k] > 0
      BY DEF IInv, StartInv
    <3> QED
      <4> SUFFICES ASSUME NEW k \in Numbers PROVE cfg[k] \in Nat \ {0}
        OBVIOUS
      <4>1. cfg[k] \in Int
        BY <3>1, <3>2
      <4>2. cfg[k] > 0
        BY <3>3
      <4> QED
        BY <4>1, <4>2
  <2>2. index \in 0..Locals
    BY LocalTyping, LocalsAssumption DEF IInv, TurnInv
  <2>3. uses \in [1..Locals -> 0..MaxSpread]
    BY SpreadAssumption DEF IInv, TurnInv
  <2> QED
    BY <2>1, <2>2, <2>3 DEF IInv, StartInv, RouteInv, TypeOK
<1> QED
  BY Invariance, <1>1, PTL

\* However many queries send at the same time, no local address is bound twice
\* before each has had its turn.
THEOREM AddressesTakeTurns == Spec => []RotationEven
<1>1. IInv => RotationEven
  BY LocalsAssumption DEF IInv, TurnInv, RotationEven
<1> QED
  BY Invariance, <1>1, PTL

\* A request is bound to a local address only for a query that asked for no proxy,
\* and with local addresses only such a query's requests are.
THEOREM ProxyAndLocalExclude == Spec => []BoundWithoutProxy
<1>1. IInv => BoundWithoutProxy
  BY DEF IInv, RouteInv, QueryOK, BoundWithoutProxy
<1> QED
  BY Invariance, <1>1, PTL

\* The variables viper looks for override the file, once a config file was read.
EnvironmentWinsOverFile ==
  phase = "ready" /\ layers.readable => \A k \in Keys : IsFromVariable(k, BoundName(k))

\* With a config file that was read, a variable that is not empty overrides what the
\* file says of its key, if it has the name viper looks for: the documented one for
\* the top-level keys, and one with dots for the others.
THEOREM EnvironmentWinsIfRead == Spec => []EnvironmentWinsOverFile
<1>1. IInv => EnvironmentWinsOverFile
  <2> DEFINE said(k) == layers.env[BoundName(k)].n
  <2> SUFFICES ASSUME IInv, phase = "ready", layers.readable, NEW k \in Keys,
                      IsGiven(layers.env, BoundName(k))
               PROVE  cfg[k] = Validate([DefaultConfig EXCEPT ![k] = said(k)])[k]
    BY DEF EnvironmentWinsOverFile, IsFromVariable
  <2>1. cfg = Validate(Unmarshal(layers.file, layers.env))
    BY DEF IInv, StartInv, LoadConfig
  <2>2. Unmarshal(layers.file, layers.env)[k] = said(k)
    BY DEF Unmarshal
  <2>3. [DefaultConfig EXCEPT ![k] = said(k)][k] = said(k)
    BY DefaultsArePositive
  <2> HIDE DEF said
  <2> QED
    BY <2>1, <2>2, <2>3 DEF Validate
<1> QED
  BY Invariance, <1>1, PTL

============================================================================
