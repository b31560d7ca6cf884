---------------------------- MODULE MCProxyPool ----------------------------
(***************************************************************************)
(* Instances of ProxyPool for TLC: more lines in an answer than the pool   *)
(* has room for and than goroutines may check at once, repeated addresses  *)
(* included, and a time to live that runs out between refreshes.           *)
(***************************************************************************)
EXTENDS ProxyPool

TwoAddrs == {"a", "b"}
One == 1
Two == 2
Three == 3

============================================================================
