------------------------------ MODULE MCEgress ------------------------------
(***************************************************************************)
(* Instances of Egress for TLC: two queries that interleave over three     *)
(* local addresses, files that say nothing, give numbers of either sign    *)
(* and of zero and turn on each of the ways out, and environments that do  *)
(* so under the names viper looks for and under those of the README.       *)
(***************************************************************************)
EXTENDS Egress, TLC

TwoQueries == {"q1", "q2"}
ThreeLocals == 3
Spread == 2

SomeFiles ==
  {<<>>,
   [k \in Numbers |-> 0],
   ("timeout" :> -1 @@ "concurrency" :> 8 @@ "proxy.pool.ipv6" :> 1),
   ("proxy.tunnel" :> 1 @@ "proxy.pool.url" :> 1 @@ "proxy.pool.size" :> 1),
   ("proxy.tunnel" :> 0 @@ "proxy.pool.url" :> 1 @@ "rate_limit.max_concurrent" :> 2)}

SomeEnvironments ==
  {<<>>,
   (DocumentedName("timeout") :> Text(60) @@ DocumentedName("proxy.tunnel") :> Text(1)),
   (DocumentedName("timeout") :> Text(-1) @@ BoundName("proxy.pool.ipv6") :> Text(1)
      @@ BoundName("proxy.pool.size") :> Text(0)),
   (DocumentedName("concurrency") :> EmptyText @@ BoundName("proxy.tunnel") :> EmptyText
      @@ BoundName("proxy.pool.ipv6") :> Text(0))}

============================================================================
