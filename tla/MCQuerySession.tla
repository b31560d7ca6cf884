--------------------------- MODULE MCQuerySession ---------------------------
(***************************************************************************)
(* Instances of QuerySession for TLC: two queries whose auth requests can  *)
(* overlap, with an answer that may take as long as a token lives or       *)
(* longer.                                                                 *)
(***************************************************************************)
EXTENDS QuerySession

TwoQueries == {"q1", "q2"}
One == 1
Two == 2

============================================================================
