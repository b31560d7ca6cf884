--------------------------- MODULE MCRateLimiter ---------------------------
(***************************************************************************)
(* Instances of RateLimiter for TLC: more calls of a tool than its quota   *)
(* of a minute, and a gate of two, so that both limiters, or two           *)
(* reservations of one limiter, can be waited for at once.                 *)
(***************************************************************************)
EXTENDS RateLimiter

FiveCalls == {"q1", "q2", "q3", "b1", "o1"}
Tools == [c \in FiveCalls |-> CASE c \in {"q1", "q2", "q3"} -> "icp_query"
                                [] c = "b1" -> "icp_blacklist"
                                [] OTHER -> "other"]
Quotas == [t \in Restricted |-> IF t = "icp_query" THEN 1 ELSE 2]
Gate == 2
TwoTicks == 2
Backlog == 4

============================================================================
