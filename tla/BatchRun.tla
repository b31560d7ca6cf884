------------------------------ MODULE BatchRun ------------------------------
(***************************************************************************)
(* One batch task of internal/task/manager.go, from the end of Create to   *)
(* the end of runTask: the submission loop, one goroutine per keyword      *)
(* behind a weighted semaphore, the compare-and-swap progress counter, the *)
(* cancellation of the task's context, the result file, the two SQL        *)
(* updates that close the task's row, and the polling loop of              *)
(* `icpcli batch` (cmd/batch.go) that reads the row afterwards.            *)
(*                                                                         *)
(* The process can die in any state. Only row and file survive it, so an   *)
(* invariant on them is what a later process finds.                        *)
(***************************************************************************)
EXTENDS Naturals, FiniteSets

CONSTANTS N,            \* len(req.Keywords)
          Concurrency   \* req.Concurrency, after Create has clamped it

ASSUME NAssumption == N \in Nat \ {0}
ASSUME ConcurrencyAssumption == Concurrency \in 1..20

Keywords == 1..N

VARIABLES
  main,       \* where the goroutine of runTask is
  next,       \* the keyword its submission loop looks at
  cancelled,  \* ctx (and gctx, derived from it) is done
  work,       \* where the goroutine of each keyword is
  outcome,    \* what queryOne returned to it
  seen,       \* the Progress that updateProgress loaded
  permits,    \* permits of the semaphore in use
  progress,   \* rt.progress: an immutable record behind an atomic pointer
  results,    \* keywords whose items are in allResults
  verdict,    \* the local variable status
  file,       \* the result file on disk
  named,      \* the local variable resultFile is not empty
  row,        \* the task's row of batch_task_history
  registered, \* Manager.running has the task
  cli,        \* where the loop of cmd/batch.go is
  report      \* the row it read at the end

taskVars == <<next, cancelled, work, outcome, seen, permits, progress, results>>
endVars == <<verdict, file, named, row, registered>>
cliVars == <<cli, report>>
vars == <<main, taskVars, endVars, cliVars>>

Zero == [completed |-> 0, success |-> 0]
NewRow == [status |-> "running", completed |-> 0, success |-> 0,
           file |-> FALSE, finished |-> FALSE]
NoFile == [state |-> "absent", holds |-> {}]
NoReport == [read |-> FALSE, row |-> NewRow]

----------------------------------------------------------------------------
\* The state Create leaves behind: row inserted, task registered, goroutine
\* of runTask started.

Init ==
  /\ main = "submit" /\ next = 1 /\ cancelled = FALSE
  /\ work = [k \in Keywords |-> "new"]
  /\ outcome = [k \in Keywords |-> "none"]
  /\ seen = [k \in Keywords |-> Zero]
  /\ permits = 0 /\ progress = Zero /\ results = {}
  /\ verdict = "none" /\ file = NoFile /\ named = FALSE
  /\ row = NewRow /\ registered = TRUE
  /\ cli = "poll" /\ report = NoReport

----------------------------------------------------------------------------
\* runTask's own goroutine

\* The loop breaks when gctx is done; the pause between submissions only lets
\* other steps happen.
Submit ==
  /\ main = "submit" /\ next <= N /\ ~cancelled
  /\ work' = [work EXCEPT ![next] = "acquire"]
  /\ next' = next + 1
  /\ UNCHANGED <<main, cancelled, outcome, seen, permits, progress, results,
                 endVars, cliVars>>

LeaveLoop ==
  /\ main = "submit"
  /\ next > N \/ cancelled
  /\ main' = "wait"
  /\ UNCHANGED <<taskVars, endVars, cliVars>>

\* Faulty variant: the task is closed without waiting for its goroutines.
SkipWait ==
  /\ main = "wait"
  /\ main' = "decide"
  /\ UNCHANGED <<taskVars, endVars, cliVars>>

\* g.Wait returns once every goroutine that was started has returned.
Wait ==
  /\ main = "wait"
  /\ \A k \in Keywords : work[k] \in {"new", "done"}
  /\ main' = "decide"
  /\ UNCHANGED <<taskVars, endVars, cliVars>>

\* Faulty variant: the context is not looked at.
DecideCompleted ==
  /\ main = "decide"
  /\ verdict' = "completed"
  /\ main' = "save"
  /\ UNCHANGED <<taskVars, file, named, row, registered, cliVars>>

\* Faulty variant: the task leaves the running map before its row is closed.
DecideUnregistered ==
  /\ main = "decide"
  /\ verdict' = IF cancelled THEN "cancelled" ELSE "completed"
  /\ registered' = FALSE
  /\ main' = "save"
  /\ UNCHANGED <<taskVars, file, named, row, cliVars>>

Decide ==
  /\ main = "decide"
  /\ verdict' = IF cancelled THEN "cancelled" ELSE "completed"
  /\ main' = "save"
  /\ UNCHANGED <<taskVars, file, named, row, registered, cliVars>>

\* No results, or MkdirAll or MarshalIndent fails: nothing is written.
SaveNothing ==
  /\ main = "save"
  /\ main' = "update"
  /\ UNCHANGED <<taskVars, endVars, cliVars>>

\* os.WriteFile creates and truncates the file before it writes.
OpenFile ==
  /\ main = "save" /\ results # {}
  /\ file' = [state |-> "partial", holds |-> {}]
  /\ main' = "write"
  /\ UNCHANGED <<taskVars, verdict, named, row, registered, cliVars>>

\* Faulty variant: the path is recorded even when the write failed.
WriteFileNamed ==
  /\ main = "write"
  /\ \/ file' = [state |-> "written", holds |-> results]
     \/ file' = file
  /\ named' = TRUE
  /\ main' = "update"
  /\ UNCHANGED <<taskVars, verdict, row, registered, cliVars>>

WriteFile ==
  /\ main = "write"
  /\ \/ /\ file' = [state |-> "written", holds |-> results]
        /\ named' = TRUE
     \/ UNCHANGED <<file, named>>
  /\ main' = "update"
  /\ UNCHANGED <<taskVars, verdict, row, registered, cliVars>>

\* UpdateBatchTask is one UPDATE statement: it happens whole or fails, and a
\* failure is only logged.
UpdateRow ==
  /\ main = "update"
  /\ \/ row' = [row EXCEPT !.status = verdict, !.completed = progress.completed,
                           !.success = progress.success, !.file = named]
     \/ row' = row
  /\ main' = "finish"
  /\ UNCHANGED <<taskVars, verdict, file, named, registered, cliVars>>

\* FinishBatchTask stamps finish_time, whether or not the update succeeded.
FinishRow ==
  /\ main = "finish"
  /\ row' \in {row, [row EXCEPT !.finished = TRUE]}
  /\ main' = "unregister"
  /\ UNCHANGED <<taskVars, verdict, file, named, registered, cliVars>>

\* The deferred running.Delete and close(rt.done), which nothing receives from.
Unregister ==
  /\ main = "unregister"
  /\ registered' = FALSE
  /\ main' = "closed"
  /\ UNCHANGED <<taskVars, verdict, file, named, row, cliVars>>

----------------------------------------------------------------------------
\* The goroutine of keyword k

\* Faulty variant: more goroutines pass the semaphore than it has permits.
AcquireUnbounded(k) ==
  /\ work[k] = "acquire" /\ ~cancelled
  /\ permits' = permits + 1
  /\ work' = [work EXCEPT ![k] = "query"]
  /\ UNCHANGED <<main, next, cancelled, outcome, seen, progress, results,
                 endVars, cliVars>>

Acquire(k) ==
  /\ work[k] = "acquire" /\ ~cancelled
  /\ permits < Concurrency
  /\ permits' = permits + 1
  /\ work' = [work EXCEPT ![k] = "query"]
  /\ UNCHANGED <<main, next, cancelled, outcome, seen, progress, results,
                 endVars, cliVars>>

\* sem.Acquire fails once gctx is done: the keyword is not counted.
AcquireFails(k) ==
  /\ work[k] = "acquire" /\ cancelled
  /\ work' = [work EXCEPT ![k] = "done"]
  /\ UNCHANGED <<main, next, cancelled, outcome, seen, permits, progress, results,
                 endVars, cliVars>>

\* queryOne returns items, an empty list, or an error, which drops the items
\* of the pages it had already read. It can still succeed after a
\* cancellation, when its last answer was already in.
QueryReturns(k) ==
  /\ work[k] = "query"
  /\ \E r \in {"items", "empty", "failed"} :
       /\ outcome' = [outcome EXCEPT ![k] = r]
       /\ work' = [work EXCEPT ![k] = IF r = "failed" THEN "load" ELSE "append"]
  /\ UNCHANGED <<main, next, cancelled, seen, permits, progress, results,
                 endVars, cliVars>>

\* The append to allResults, under mu.
AppendResults(k) ==
  /\ work[k] = "append"
  /\ results' = IF outcome[k] = "items" THEN results \cup {k} ELSE results
  /\ work' = [work EXCEPT ![k] = "load"]
  /\ UNCHANGED <<main, next, cancelled, outcome, seen, permits, progress,
                 endVars, cliVars>>

LoadProgress(k) ==
  /\ work[k] = "load"
  /\ seen' = [seen EXCEPT ![k] = progress]
  /\ work' = [work EXCEPT ![k] = "swap"]
  /\ UNCHANGED <<main, next, cancelled, outcome, permits, progress, results,
                 endVars, cliVars>>

Bumped(p, k) ==
  [completed |-> p.completed + 1,
   success |-> p.success + (IF outcome[k] = "failed" THEN 0 ELSE 1)]

\* Faulty variant: the new record is stored without comparing.
StoreProgress(k) ==
  /\ work[k] = "swap"
  /\ progress' = Bumped(seen[k], k)
  /\ seen' = [seen EXCEPT ![k] = Zero]
  /\ permits' = permits - 1
  /\ work' = [work EXCEPT ![k] = "done"]
  /\ UNCHANGED <<main, next, cancelled, outcome, results, endVars, cliVars>>

\* Faulty variant: a failed query returns without releasing its permit.
SwapLeaking(k) ==
  /\ work[k] = "swap" /\ seen[k] = progress
  /\ progress' = Bumped(seen[k], k)
  /\ seen' = [seen EXCEPT ![k] = Zero]
  /\ permits' = IF outcome[k] = "failed" THEN permits ELSE permits - 1
  /\ work' = [work EXCEPT ![k] = "done"]
  /\ UNCHANGED <<main, next, cancelled, outcome, results, endVars, cliVars>>

\* CompareAndSwap compares pointers. Every record is stored once and counts one
\* keyword more than the one before, so equal records are the same pointer.
\* The goroutine then returns and its deferred Release gives the permit back.
SwapProgress(k) ==
  /\ work[k] = "swap" /\ seen[k] = progress
  /\ progress' = Bumped(seen[k], k)
  /\ seen' = [seen EXCEPT ![k] = Zero]
  /\ permits' = permits - 1
  /\ work' = [work EXCEPT ![k] = "done"]
  /\ UNCHANGED <<main, next, cancelled, outcome, results, endVars, cliVars>>

SwapFails(k) ==
  /\ work[k] = "swap" /\ seen[k] # progress
  /\ seen' = [seen EXCEPT ![k] = Zero]
  /\ work' = [work EXCEPT ![k] = "load"]
  /\ UNCHANGED <<main, next, cancelled, outcome, permits, progress, results,
                 endVars, cliVars>>

----------------------------------------------------------------------------
\* Callers of the Manager

\* Manager.Cancel finds the task only while it is in the running map.
Cancel ==
  /\ registered /\ ~cancelled
  /\ cancelled' = TRUE
  /\ UNCHANGED <<main, next, work, outcome, seen, permits, progress, results,
                 endVars, cliVars>>

\* GetProgress no longer finds the task: the polling loop ends.
PollGone ==
  /\ cli = "poll" /\ ~registered
  /\ cli' = "read"
  /\ UNCHANGED <<main, taskVars, endVars, report>>

\* GetBatchTaskDetail; an error is printed and the command still ends.
ReadRow ==
  /\ cli = "read"
  /\ report' \in {NoReport, [read |-> TRUE, row |-> row]}
  /\ cli' = "exit"
  /\ UNCHANGED <<main, taskVars, endVars>>

\* The command has printed its report and the process ends.
Exited == cli = "exit" /\ main = "closed" /\ UNCHANGED vars

----------------------------------------------------------------------------
RunStep ==
  \/ Submit \/ LeaveLoop \/ Wait \/ Decide \/ SaveNothing \/ OpenFile
  \/ WriteFile \/ UpdateRow \/ FinishRow \/ Unregister

OwnStep(k) ==
  \/ Acquire(k) \/ AcquireFails(k) \/ AppendResults(k)
  \/ LoadProgress(k) \/ SwapProgress(k) \/ SwapFails(k)

WorkerStep(k) == OwnStep(k) \/ QueryReturns(k)

CliStep == PollGone \/ ReadRow

Next ==
  \/ RunStep
  \/ \E k \in Keywords : WorkerStep(k)
  \/ CliStep
  \/ Cancel
  \/ Exited

Spec == Init /\ [][Next]_vars

\* Every goroutine that can run is scheduled, and a database call ends because
\* finalizeCtx has a timeout. A query is different: the HTTP client bounds each
\* request, but with auto_page nothing bounds how many queryOne makes. It has to
\* return only when its context is done.
Fairness ==
  /\ WF_vars(RunStep)
  /\ \A k \in Keywords : WF_vars(OwnStep(k)) /\ WF_vars(cancelled /\ QueryReturns(k))
  /\ WF_vars(CliStep)

FairSpec == Spec /\ Fairness

----------------------------------------------------------------------------
\* Correctness

InFlight == {k \in Keywords : work[k] \in {"query", "append", "load", "swap"}}
Counted == {k \in Keywords : work[k] = "done" /\ outcome[k] # "none"}
Succeeded == {k \in Counted : outcome[k] # "failed"}
WithItems == {k \in Counted : outcome[k] = "items"}

Progress == [completed : 0..N, success : 0..N]
Row == [status : {"running", "completed", "cancelled"}, completed : 0..N,
        success : 0..N, file : BOOLEAN, finished : BOOLEAN]

\* The type invariant.
TypeOK ==
  /\ main \in {"submit", "wait", "decide", "save", "write", "update", "finish",
              "unregister", "closed"}
  /\ next \in 1..(N + 1) /\ cancelled \in BOOLEAN
  /\ work \in [Keywords -> {"new", "acquire", "query", "append", "load", "swap", "done"}]
  /\ outcome \in [Keywords -> {"none", "items", "empty", "failed"}]
  /\ seen \in [Keywords -> Progress]
  /\ permits \in 0..Concurrency /\ progress \in Progress
  /\ results \in SUBSET Keywords
  /\ verdict \in {"none", "completed", "cancelled"}
  /\ file \in [state : {"absent", "partial", "written"}, holds : SUBSET Keywords]
  /\ named \in BOOLEAN /\ row \in Row /\ registered \in BOOLEAN
  /\ cli \in {"poll", "read", "exit"}
  /\ report \in [read : BOOLEAN, row : Row]

\* No more than Concurrency keywords are being queried at once, on every path
\* through the goroutine: the "max concurrent queries" of CreateRequest.
PermitBound == Cardinality(InFlight) <= Concurrency

\* No update of rt.progress is lost or made twice, however the loads and swaps
\* of the goroutines interleave: the record always counts exactly the keywords
\* whose goroutine got an answer, and the successes among them.
ProgressExact ==
  /\ progress.completed = Cardinality(Counted)
  /\ progress.success = Cardinality(Succeeded)

\* A row that says "completed" accounts for every keyword: none was skipped or
\* still running when the counts were read. A task whose keywords were cut
\* short by Cancel never passes for a completed one.
CompletedIsTotal ==
  row.status = "completed" =>
    /\ row.completed = N
    /\ row.success = Cardinality({k \in Keywords : outcome[k] \in {"items", "empty"}})

\* A row that names a result file names one that was written to the end and
\* that holds the items of exactly the keywords that returned some; so does
\* the row a later process finds if this one dies at any point.
NamedFileIsWhole ==
  row.file => file = [state |-> "written", holds |-> WithItems] /\ WithItems # {}

\* What `icpcli batch` prints is final: by the time the task has left the
\* running map and its row is read, nothing will write to the row any more.
ReportIsFinal == report.read => main = "closed" /\ report.row = row

\* What the end of a task depends on: that queryOne does not page for ever
\* through any of its keywords, or that somebody cancels it.
CanEnd == (\A k \in Keywords : []<>(work[k] # "query")) \/ <>cancelled

\* The task reaches its end and leaves the running map, whatever its queries
\* return, if each of them returns or the task is cancelled at some point: there
\* is nothing else it can wait for.
TaskEnds == CanEnd => <>(main = "closed")

\* Under the same condition the batch command stops polling and exits.
CommandEnds == CanEnd => <>(cli = "exit")

\* The task implements the promise of BatchTask. A keyword is resolved when
\* its goroutine has counted it, and the task ends when its row says so.
Resolution ==
  [k \in Keywords |-> IF work[k] # "done" \/ outcome[k] = "none" THEN "pending"
                      ELSE IF outcome[k] = "failed" THEN "failed" ELSE "ok"]

Task == INSTANCE BatchTask WITH
  resolved <- Resolution, cancelRequested <- cancelled, status <- row.status,
  counts <- [completed |-> row.completed, success |-> row.success]

ImplementsBatchTask == Task!Spec

============================================================================
