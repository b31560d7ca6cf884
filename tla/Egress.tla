------------------------------- MODULE Egress -------------------------------
(***************************************************************************)
(* How the requests of internal/beian leave the machine: loadConfig of     *)
(* cmd/root.go, New and resolveProxy of beian.go, which picks a proxy once *)
(* for each query, and makeHTTPClient with getNextIPv6 of client.go, which *)
(* build a client for each of its requests while other queries do the      *)
(* same.                                                                   *)
(*                                                                         *)
(* blockedIPs is not modelled: nothing stores into it, so isIPBlocked is   *)
(* FALSE and getNextIPv6 takes the first address it looks at.              *)
(***************************************************************************)
EXTENDS Settings, FiniteSets

CONSTANTS Queries,    \* goroutines that query
          Locals,     \* public IPv6 addresses of the machine
          Files,      \* what config.yml may say
          Environments, \* the variables that may be set
          MaxSpread   \* bound: uses are not told apart above the least one

ASSUME LocalsAssumption == Locals \in Nat
ASSUME SpreadAssumption == MaxSpread \in Nat \ {0, 1}
ASSUME FilesAssumption ==
  \A f \in Files : DOMAIN f \subseteq Keys /\ \A k \in DOMAIN f : f[k] \in Int
ASSUME EnvironmentsAssumption ==
  \A e \in Environments : /\ DOMAIN e \subseteq EnvNames
                           /\ \A v \in DOMAIN e : e[v] \in [empty : BOOLEAN, n : Int]

VARIABLES
  layers, \* whether config.yml is readable, what it says and the environment
  phase,  \* of the process: "load", "ready" or "failed"
  cfg,    \* the settings in effect
  index,  \* ipv6Index
  query,  \* each query: whether it runs, what its caller passed, its proxy
  route,  \* the way its last request took
  uses    \* of each local address, above those of the least used one

vars == <<layers, phase, cfg, index, query, route, uses>>

None == "none"
Idle == [at |-> "idle", asked |-> None, proxy |-> None]
NoRoute == [via |-> None, addr |-> 0]

Init ==
  /\ layers \in [readable : BOOLEAN, file : Files, env : Environments]
  /\ phase = "load"
  /\ cfg = DefaultConfig
  /\ index = 0
  /\ query = [q \in Queries |-> Idle]
  /\ route = [q \in Queries |-> NoRoute]
  /\ uses = [a \in 1..Locals |-> 0]

----------------------------------------------------------------------------
\* Starting up

Load ==
  /\ phase = "load"
  /\ cfg' = LoadConfig(layers.readable, layers.file, layers.env)
  /\ phase' = "ready"
  /\ UNCHANGED <<layers, index, query, route, uses>>

\* A value of the wrong type: the command ends with an error.
LoadFails ==
  /\ phase = "load" /\ layers.readable
  /\ DOMAIN layers.file # {} \/ \E k \in Keys : IsGiven(layers.env, BoundName(k))
  /\ phase' = "failed"
  /\ UNCHANGED <<layers, cfg, index, query, route, uses>>

\* The command has ended.
Stopped == phase = "failed" /\ UNCHANGED vars

\* New looks for local addresses only when they are asked for.
LocalAddresses == IF cfg["proxy.pool.ipv6"] # 0 THEN Locals ELSE 0

----------------------------------------------------------------------------
\* A query

\* The caller's proxy, local IPv6, the tunnel, an address of the pool, which
\* may have none, or nothing.
Resolved(asked) ==
  IF asked # None THEN {asked}
  ELSE IF LocalAddresses > 0 THEN {None}
  ELSE IF cfg["proxy.tunnel"] # 0 THEN {"tunnel"}
  ELSE IF cfg["proxy.pool.url"] # 0 THEN {"pool", None}
  ELSE {None}

Begin(q) ==
  /\ phase = "ready" /\ query[q] = Idle
  /\ \E asked \in {"caller", None} : \E p \in Resolved(asked) :
       query' = [query EXCEPT ![q] = [at |-> "run", asked |-> asked, proxy |-> p]]
  /\ route' = [route EXCEPT ![q] = NoRoute]
  /\ UNCHANGED <<layers, phase, cfg, index, uses>>

End(q) ==
  /\ query[q] # Idle
  /\ query' = [query EXCEPT ![q] = Idle]
  /\ route' = [route EXCEPT ![q] = NoRoute]
  /\ UNCHANGED <<layers, phase, cfg, index, uses>>

\* Faulty variant: the index is reset one address early.
NextIndexShort == IF index >= LocalAddresses - 1 THEN 0 ELSE index

\* Faulty variant: an index one past the end is still used.
NextIndexLate == IF index > LocalAddresses THEN 0 ELSE index

\* Under ipv6Mu: an index past the end is reset, the address taken, the index
\* moved on.
NextIndex == IF index >= LocalAddresses THEN 0 ELSE index

Counted(a) ==
  LET raw == [uses EXCEPT ![a] = @ + 1]
      least == CHOOSE n \in 0..(MaxSpread + 1) :
                 (\E b \in 1..Locals : raw[b] = n) /\ \A b \in 1..Locals : raw[b] >= n
  IN [b \in 1..Locals |-> IF raw[b] - least > MaxSpread THEN MaxSpread ELSE raw[b] - least]

\* Faulty variant: a local address is bound whenever there is one.
PostBoundAlways(q) ==
  /\ query[q].at = "run" /\ LocalAddresses > 0
  /\ index' = NextIndex + 1
  /\ route' = [route EXCEPT ![q] = [via |-> "local", addr |-> NextIndex + 1]]
  /\ uses' = Counted(NextIndex + 1)
  /\ UNCHANGED <<layers, phase, cfg, query>>

\* doPost through a transport bound to the next local address.
PostBound(q) ==
  /\ query[q].at = "run" /\ query[q].proxy = None /\ LocalAddresses > 0
  /\ index' = NextIndex + 1
  /\ route' = [route EXCEPT ![q] = [via |-> "local", addr |-> NextIndex + 1]]
  /\ uses' = Counted(NextIndex + 1)
  /\ UNCHANGED <<layers, phase, cfg, query>>

\* doPost through the shared client, whose transport has no Proxy: the request
\* is sent straight to the server.
PostShared(q) ==
  /\ query[q].at = "run"
  /\ query[q].proxy # None \/ LocalAddresses = 0
  /\ route' = [route EXCEPT ![q] = [via |-> "direct", addr |-> 0]]
  /\ UNCHANGED <<layers, phase, cfg, index, query, uses>>

----------------------------------------------------------------------------
Next ==
  \/ Load \/ LoadFails \/ Stopped
  \/ \E q \in Queries : Begin(q) \/ End(q) \/ PostBound(q) \/ PostShared(q)

Spec == Init /\ [][Next]_vars

----------------------------------------------------------------------------
\* Correctness

\* The type invariant. The range of the settings is what the other modules assume
\* of their constants: the semaphores of fetchDetails and of the middleware have a
\* permit, the limiters a quota, the pool room and the HTTP client a timeout,
\* whatever file and environment say.
TypeOK ==
  /\ \A k \in Numbers : cfg[k] \in Nat \ {0}
  /\ phase \in {"load", "ready", "failed"}
  /\ index \in 0..Locals
  /\ query \in [Queries -> [at : {"idle", "run"}, asked : {"caller", None},
                            proxy : {"caller", "tunnel", "pool", None}]]
  /\ route \in [Queries -> [via : {"local", "direct", None}, addr : 0..Locals]]
  /\ uses \in [1..Locals -> 0..MaxSpread]

\* Queries that run at the same time share the local addresses evenly: none is
\* skipped and none is bound twice before all have had their turn.
RotationEven == \A a \in DOMAIN uses : uses[a] <= 1

\* A proxy the caller asks for and local addresses exclude each other: a request
\* that is to go through a proxy is never bound to a local address, and one that
\* has no proxy never leaves by the default address while there are local ones.
BoundWithoutProxy ==
  \A q \in Queries :
    /\ route[q].via = "local" => query[q].asked = None
    /\ route[q].via = "direct" /\ LocalAddresses > 0 => query[q].asked # None

\* What the README says of proxy.tunnel, the help text of --proxy and the
\* comment on resolveProxy: requests go through the proxy that was picked.
ProxyIsUsed ==
  \A q \in Queries : route[q].via # None /\ query[q].proxy # None => route[q].via = query[q].proxy

\* The setting k is what the variable of that name says, if it is given and Validate
\* lets it pass.
IsFromVariable(k, name) ==
  IsGiven(layers.env, name) => cfg[k] = Validate([DefaultConfig EXCEPT ![k] = layers.env[name].n])[k]

\* What the comment on Config says of the environment: it is a layer that overrides
\* the others. Stated for the keys whose variable has the documented name; those of the
\* other keys have no effect under it in any case.
EnvironmentWins == phase = "ready" => \A k \in TopLevel : IsFromVariable(k, DocumentedName(k))

============================================================================
