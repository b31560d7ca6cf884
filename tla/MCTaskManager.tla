--------------------------- MODULE MCTaskManager ---------------------------
(***************************************************************************)
(* Instances of TaskManager for TLC: two processes on one database, the    *)
(* first with two callers that can race inside Create.                     *)
(***************************************************************************)
EXTENDS TaskManager

TwoProcs == {"p", "q"}
ThreeCallers == {"p1", "p2", "q1"}
Homes == [c \in ThreeCallers |-> IF c = "q1" THEN "q" ELSE "p"]
OneProc == {"p"}
TwoCallers == {"p1", "p2"}
OneHome == [c \in TwoCallers |-> "p"]
OneName == {"daily"}
TwoRuns == 2

============================================================================
