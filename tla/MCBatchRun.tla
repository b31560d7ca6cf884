----------------------------- MODULE MCBatchRun -----------------------------
(***************************************************************************)
(* Instances of BatchRun for TLC: more keywords than permits, so that a    *)
(* goroutine waits while two others race on the progress counter. Cancel,  *)
(* every outcome of a query and every failure of the file system and of    *)
(* the database happen at every point.                                     *)
(***************************************************************************)
EXTENDS BatchRun

FourKeywords == 4
Permits == 2

============================================================================
