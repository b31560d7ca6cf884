----------------------------- MODULE BatchTask -----------------------------
(***************************************************************************)
(* What a batch task promises, whatever the goroutines behind it do: each  *)
(* keyword is resolved at most once, to a success or to a failure; the     *)
(* task ends "completed" only when every keyword is resolved and           *)
(* "cancelled" only when somebody asked for it; the counts recorded with   *)
(* the end state are exactly those of the resolved keywords, and nothing   *)
(* is resolved once the end state is recorded.                             *)
(*                                                                         *)
(* BatchRun.tla models internal/task/manager.go itself and implements this *)
(* specification (BatchRunProofs.tla proves it).                           *)
(***************************************************************************)
EXTENDS Naturals, FiniteSets

CONSTANT Keywords   \* the indices of req.Keywords

VARIABLES resolved,          \* what became of each keyword
          cancelRequested,   \* somebody called Manager.Cancel
          status,            \* the status column of the task's row
          counts             \* its completed_count and success_count columns

taskVars == <<resolved, cancelRequested, status, counts>>

Resolved == {k \in Keywords : resolved[k] # "pending"}
Successes == {k \in Keywords : resolved[k] = "ok"}

Init ==
  /\ resolved = [k \in Keywords |-> "pending"]
  /\ cancelRequested = FALSE
  /\ status = "running"
  /\ counts = [completed |-> 0, success |-> 0]

Resolve(k) ==
  /\ status = "running"
  /\ resolved[k] = "pending"
  /\ \E r \in {"ok", "failed"} : resolved' = [resolved EXCEPT ![k] = r]
  /\ UNCHANGED <<cancelRequested, status, counts>>

RequestCancel ==
  /\ cancelRequested' = TRUE
  /\ UNCHANGED <<resolved, status, counts>>

\* The end state is recorded with the counts it was reached with.
End(verdict) ==
  /\ status = "running"
  /\ status' = verdict
  /\ counts' = [completed |-> Cardinality(Resolved), success |-> Cardinality(Successes)]
  /\ UNCHANGED <<resolved, cancelRequested>>

Complete == Resolved = Keywords /\ End("completed")

GiveUp == cancelRequested /\ End("cancelled")

Next ==
  \/ \E k \in Keywords : Resolve(k)
  \/ RequestCancel
  \/ Complete
  \/ GiveUp

Spec == Init /\ [][Next]_taskVars

============================================================================
