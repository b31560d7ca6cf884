------------------------------ MODULE Settings ------------------------------
(***************************************************************************)
(* The settings of internal/config/config.go and what loadConfig of        *)
(* cmd/root.go makes of its three layers: the defaults, config.yml and the *)
(* environment. What the file says is a function on the keys it gives a    *)
(* value to, the environment one on the names of the variables that are    *)
(* set, some of them to the empty string. viper, which is not part of the  *)
(* repository, is modelled by what these calls of it do.                   *)
(***************************************************************************)
EXTENDS Integers

\* The keys Validate looks at, and the other keys that decide how requests
\* leave the machine. RateLimit.Enabled is read in cmd/mcp.go only.
Numbers == {"timeout", "concurrency", "rate_limit.query_per_min",
            "rate_limit.blacklist_per_min", "rate_limit.max_concurrent",
            "proxy.pool.size"}
Choices == {"proxy.tunnel", "proxy.pool.url", "proxy.pool.ipv6"}
Keys == Numbers \cup Choices

\* A number, or for the keys of Choices whether they are given at all: 0 is the
\* empty string and false.
DefaultConfig ==
  [k \in Keys |-> CASE k = "timeout" -> 30
                    [] k = "concurrency" -> 5
                    [] k = "rate_limit.query_per_min" -> 5
                    [] k = "rate_limit.blacklist_per_min" -> 3
                    [] k = "rate_limit.max_concurrent" -> 1
                    [] k = "proxy.pool.size" -> 100
                    [] OTHER -> 0]

\* A variable is ICP_, the key in capitals and, between the levels of a key that
\* has several, a separator. The README joins them with "_". BindEnv has no key
\* replacer, so viper looks for a name with the dots of the key.
TopLevel == {"timeout", "concurrency"}
DocumentedName(k) == [key |-> k, sep |-> IF k \in TopLevel THEN "" ELSE "_"]
BoundName(k) == [key |-> k, sep |-> IF k \in TopLevel THEN "" ELSE "."]
EnvNames == {DocumentedName(k) : k \in Keys} \cup {BoundName(k) : k \in Keys}

\* The value of a variable; without AllowEmptyEnv an empty one counts as not set.
Text(n) == [empty |-> FALSE, n |-> n]
EmptyText == [empty |-> TRUE, n |-> 0]
IsGiven(env, name) == name \in DOMAIN env /\ ~env[name].empty

\* viper.Unmarshal into the defaults: of a key whose bound variable is given the
\* variable, else what the file says, else what was there.
Unmarshal(file, env) ==
  [k \in Keys |-> IF IsGiven(env, BoundName(k)) THEN env[BoundName(k)].n
                  ELSE IF k \in DOMAIN file THEN file[k] ELSE DefaultConfig[k]]

\* Faulty variant: zero is taken as a number like any other.
ValidateNegative(c) ==
  [k \in Keys |-> IF k \in Numbers /\ c[k] < 0 THEN DefaultConfig[k] ELSE c[k]]

Validate(c) ==
  [k \in Keys |-> IF k \in Numbers /\ c[k] <= 0 THEN DefaultConfig[k] ELSE c[k]]

\* A file that is missing or cannot be parsed is no error: Unmarshal, which is
\* what looks at the environment, is then left out altogether.
LoadConfig(readable, file, env) ==
  Validate(IF readable THEN Unmarshal(file, env) ELSE DefaultConfig)

============================================================================
